---------------------------- MODULE Spec2Model ----------------------------
(***************************************************************************)
(* Scan-data recorders of sardana (macroserver/scan/recorder/storage.py):  *)
(* the data-source resolution of NXS_FileRecorder and the start /          *)
(* writeRecord / end life cycle of the NXS, SPEC, FIO and NXscan file      *)
(* recorders, each as a state machine whose actions are whole handlers.    *)
(***************************************************************************)
EXTENDS Integers, Sequences, FiniteSets, TLC

(***************************************************************************)
(* Bounds of the model.                                                    *)
(***************************************************************************)
\* largest number of sources one component declares (clientSources list)
MaxSources == 2
\* largest number of runs (recorders constructed and started) on one file
MaxRuns == 2
\* largest number of writeRecord calls over all runs
MaxRecords == 2
\* largest number of addCustomData calls over all runs
MaxCustom == 1

(***************************************************************************)
(* Universe of the data-source resolution.                                 *)
(***************************************************************************)
\* components of the settings service's catalog
Comps == {"base", "opt"}
\* data-source names / device aliases (names without "/")
DsNames == {"mot1", "det1", "x"}
\* raw channel names whose alias lookup yields no alias (names with "/")
RawNames == {"exp/raw/1"}
\* logical keys of the user data that no component records
OtherKeys == {"start_time"}
Strategies == {"STEP", "CLIENT"}

\* one element of the list clientSources([cp]) returns
SourceEntries == [dsname : DsNames, strategy : Strategies]
\* the value of ds["record"] of a source entry: the client record of the source
RecordOf(e) == e.dsname

\* what clientSources([cp]) may yield: a list of at most MaxSources entries,
\* or "fail" (the call raises, or the data is malformed)
SourceLists == {S \in SUBSET SourceEntries : Cardinality(S) <= MaxSources}
\* what a component whose fetch fails would have declared
FailedLists == {{}, {[dsname |-> "mot1", strategy |-> "STEP"]}}

VARIABLES
    \* ---- settings service / recorder configuration read by the resolution
    catalog,            \* cp -> clientSources([cp]) (a set of entries)
    broken,             \* components whose clientSources call raises
    usercomponents,     \* server components + automaticComponents
    mandatory,          \* mandatoryComponents() of the settings service
    nexuscomponents,    \* user + mandatory components handed to the search
    availableComps,     \* result of __availableComponents()
    cfm,                \* ComponentsFromMntGrp
    dyncp,              \* DynamicComponents
    datasources,        \* server dataSources + keys of __deviceAliases
    dynamicDataSources, \* keys of __dynamicDataSources (unaliased raw names)
    userkeys,           \* userdata.keys()
    \* ---- result of __searchDataSources
    resolved,           \* TRUE once __searchDataSources has returned
    dsFound,            \* alias -> components supplying it (local of the search)
    dsNotFound,         \* alias -> number of times it is listed in dsNotFound
    cpReq,              \* component -> required aliases it supplies
    missingKeys,        \* list(missingKeys)
    warned,             \* alias -> number of "will not be stored" warnings
    \* ---- the run driver and the recorder instance (BaseFileRecorder)
    klass,              \* class of the recorder the driver uses
    pc,                 \* driver: "none", "new", "started", "ended", "failed"
    filename,           \* self.filename: "None" or the path
    fd,                 \* self.fd: "None", "open" or "closed"
    runs,               \* recorders constructed so far
    nrec,               \* writeRecord calls so far
    ncustom,            \* addCustomData calls so far
    \* ---- the run environment (recordlist.getEnviron())
    serialno,           \* env['serialno'] of the current run
    datadesc,           \* env['datadesc'] of the current run
    calls,              \* the records handed to writeRecord in this run
    \* ---- the file system
    dirExists,          \* os.path.isdir(dirname)
    fileExists,         \* os.path.exists(filename)
    fileLines,          \* the lines of the output file
    runMark,            \* number of lines in the file when the run started
    \* ---- SPEC_FileRecorder
    names,              \* self.names
    \* ---- FIO_FileRecorder and its sidecar files
    ctNames,            \* self.ctNames
    mcaNames,           \* self.mcaNames
    mcaDirName,         \* self.mcaDirName: "unset", "None" or the directory
    mcaDirs,            \* serial numbers whose sidecar directory exists
    mcaFiles,           \* the sidecar files written so far
    \* ---- NXscan_FileRecorder and its container file
    overwrite,          \* self.overwrite
    dataCompressionRank, \* self._dataCompressionRank
    entryname,          \* self.entryname, as the serial number it is made of
    nxdatadesc,         \* self.datadesc: the descriptors adapted at start
    nxfile,             \* the container: serial number of an entry -> entry
    raised,             \* the exception the last handler let propagate
    \* ---- NXS_FileRecorder, the settings service and the writer service
    base_filename,      \* self.__base_filename
    dynamicCP,          \* self.__dynamicCP
    registered,         \* dynamic components registered with the settings service
    svcLog,             \* the calls made to the two services in this run
    dynArgs,            \* what createDynamicComponent was last handed
    cnfComponents,      \* the components createConfiguration was last handed
    \* ---- the FileRecorder factory
    made,               \* the calls of the factory so far and what each returned
    \* ---- the configuration of the NXS recorder and its getters
    conf,               \* self.__conf: variable -> value
    settings,           \* self.__nexussettings_device: << >> is None, else
                        \* <<attrs>>, the attributes of the device
    got,                \* the last call of a getter and how it ended
    configured,         \* the last call of __createConfiguration and how it ended
    \* ---- PoolTGGeneration
    tgState,            \* idle, or how start_action ended: started, raised
    tgConfig,           \* the config start_action was called with
    tgLog,              \* the calls start_action made to the controllers
    tgMoving            \* the channels whose state was set to Moving

resolverIn == <<catalog, broken, usercomponents, mandatory, nexuscomponents,
                availableComps, cfm, dyncp,
                datasources, dynamicDataSources, userkeys>>
resolverOut == <<resolved, dsFound, dsNotFound, cpReq, missingKeys, warned>>
driverVars == <<klass, pc, filename, fd, runs, nrec, ncustom>>
envVars == <<serialno, datadesc, calls>>
fsVars == <<dirExists, fileExists, fileLines, runMark>>
specVars == <<names>>
fioVars == <<ctNames, mcaNames, mcaDirName, mcaDirs, mcaFiles>>
nxscanVars == <<overwrite, dataCompressionRank, entryname, nxdatadesc, nxfile,
               raised>>
nxsVars == <<base_filename, dynamicCP, registered, svcLog, dynArgs,
            cnfComponents>>
recorderVars == <<driverVars, envVars, fsVars, specVars, fioVars, nxscanVars,
                  nxsVars>>
factoryVars == <<made>>
settingsVars == <<conf, settings, got, configured>>
tgVars == <<tgState, tgConfig, tgLog, tgMoving>>
vars == <<resolverIn, resolverOut, recorderVars, factoryVars, settingsVars,
         tgVars>>

AllNames == DsNames \cup RawNames

(***************************************************************************)
(* NXS_FileRecorder.__searchDataSources, computed as the code computes it. *)
(***************************************************************************)
\* cmps = list(set(nexuscomponents) | set(self.__availableComponents()))
Cmps(nxc, avail) == nxc \cup avail

\* StepSources without the filter on ds["strategy"] == 'STEP'
StepSources_AnyStrategy(cat, brk, cp) ==
    IF cp \in brk THEN {}
    ELSE {e.dsname : e \in cat[cp]}

\* StepSources without the except branch setting dss = []
StepSources_IgnoreFailure(cat, brk, cp) ==
    {e.dsname : e \in {s \in cat[cp] : s.strategy = "STEP"}}

\* dss of one pass of the loop: the STEP sources of cp, [] when the fetch fails
StepSources(cat, brk, cp) ==
    IF cp \in brk THEN {}
    ELSE {e.dsname : e \in {s \in cat[cp] : s.strategy = "STEP"}}

\* cdss = list(set(dss) & set(datasources))
Cdss(cat, brk, dsrc, cp) == StepSources(cat, brk, cp) \cap dsrc

\* dsFound after the loop over cmps: alias -> list of components
DsFoundOf(cat, brk, dsrc, cs) ==
    LET found == UNION {Cdss(cat, brk, dsrc, cp) : cp \in cs}
    IN  [ds \in found |-> {cp \in cs : ds \in Cdss(cat, brk, dsrc, cp)}]

\* the visiting orders of the loop "for cp in cmps": list(set(...)) fixes none
Orders(cs) ==
    {o \in [1..Cardinality(cs) -> cs] :
        \A i, j \in 1..Cardinality(cs) : i # j => o[i] # o[j]}

\* CpReqAdd that lists an alias under the first component supplying it only
CpReqAdd_FirstMatch(req, cp, cdss) ==
    LET new == cdss \ UNION {req[c] : c \in DOMAIN req}
    IN  IF new = {} THEN req
        ELSE [c \in DOMAIN req \cup {cp} |-> IF c = cp THEN new ELSE req[c]]

\* one pass of the loop on cpReq: every alias of cdss is appended to cpReq[cp]
CpReqAdd(req, cp, cdss) ==
    IF cdss = {} THEN req
    ELSE [c \in DOMAIN req \cup {cp} |-> IF c = cp THEN cdss ELSE req[c]]

\* cpReq after the loop has visited the components in the given order
RECURSIVE CpReqLoop(_, _, _, _, _)
CpReqLoop(cat, brk, dsrc, order, req) ==
    IF order = << >> THEN req
    ELSE CpReqLoop(cat, brk, dsrc, Tail(order),
                   CpReqAdd(req, Head(order), Cdss(cat, brk, dsrc, Head(order))))

\* cpReq after the loop over cmps: component -> list of aliases
CpReqOf(cat, brk, dsrc, cs) ==
    [cp \in {c \in cs : Cdss(cat, brk, dsrc, c) # {}} |-> Cdss(cat, brk, dsrc, cp)]

\* keyFound after the loop: the records of every fetched component
KeyFoundOf(cat, brk, cs) ==
    UNION {{RecordOf(e) : e \in cat[cp]} : cp \in cs \ brk}

\* how often ds occurs in the list datasources after
\* datasources.extend(self.__dynamicDataSources.keys())
Occurrences(dsrc, dyn, ds) ==
    (IF ds \in dsrc THEN 1 ELSE 0) + (IF ds \in dyn THEN 1 ELSE 0)

\* NotFoundTest without the branch "elif not cfm"
NotFoundTest_NoRestrict(found, nxc, restrict, ds) ==
    ds \notin DOMAIN found

\* NotFoundTest with the test on the user components whatever cfm is
NotFoundTest_AlwaysRestrict(found, nxc, restrict, ds) ==
    IF ds \notin DOMAIN found THEN TRUE
    ELSE (found[ds] \cap nxc) = {}

\* whether one occurrence of ds in datasources is appended to dsNotFound
NotFoundTest(found, nxc, restrict, ds) ==
    IF ds \notin DOMAIN found THEN TRUE
    ELSE restrict /\ (found[ds] \cap nxc) = {}

\* dsNotFound as a bag: alias -> number of entries
DsNotFoundOf(found, nxc, fromMntGrp, dsrc, dyn) ==
    [ds \in AllNames |->
        IF NotFoundTest(found, nxc, ~fromMntGrp, ds)
        THEN Occurrences(dsrc, dyn, ds) ELSE 0]

\* the warnings of the loop: one per entry of dsNotFound when not dyncp
WarnedOf(notFound, dynamic) ==
    [ds \in AllNames |-> IF dynamic THEN 0 ELSE notFound[ds]]

\* set(userkeys) - keyFound
MissingKeysOf(keys, keyFound) == keys \ keyFound

EmptyBag == [ds \in AllNames |-> 0]

\* the set of names a bag holds
BagSet(b) == {ds \in DOMAIN b : b[ds] > 0}

(***************************************************************************)
(* Specification of the resolution alone: Init draws the inputs, the       *)
(* action applies __searchDataSources to them.                             *)
(***************************************************************************)
ResolverInputs ==
    /\ catalog \in [Comps -> SourceLists]
    /\ broken \in SUBSET Comps
    /\ \A cp \in broken : catalog[cp] \in FailedLists
    /\ nexuscomponents \in SUBSET Comps
    /\ usercomponents = nexuscomponents
    /\ mandatory = {}
    /\ availableComps \in SUBSET Comps
    /\ cfm \in BOOLEAN
    /\ dyncp \in BOOLEAN
    /\ datasources \in SUBSET {"mot1", "det1"}
    /\ dynamicDataSources \in SUBSET RawNames
    /\ userkeys = {"x"} \cup OtherKeys

NoResult ==
    /\ resolved = FALSE
    /\ dsFound = << >>
    /\ dsNotFound = EmptyBag
    /\ cpReq = << >>
    /\ missingKeys = {}
    /\ warned = EmptyBag

\* nothing handed to createDynamicComponent yet
NoArgs ==
    [dss |-> [ds \in DsNames \cup RawNames |-> 0], keys |-> {}, dds |-> << >>]

\* the name __init__ gives self.__dynamicCP
DefaultDynamicCP == "__dynamic_component__"

\* BaseNAPI_FileRecorder._dataCompressionRank as the class declares it
DefaultCompressionRank == -1

\* no recorder exists and the output file does not exist yet
NoRecorder ==
    /\ pc = "none"
    /\ filename = "None"
    /\ fd = "None"
    /\ runs = 0
    /\ nrec = 0
    /\ ncustom = 0
    /\ serialno = 0
    /\ calls = << >>
    /\ fileExists = FALSE
    /\ fileLines = << >>
    /\ runMark = 0
    /\ made = {}
    /\ names = << >>
    /\ ctNames = << >>
    /\ mcaNames = << >>
    /\ mcaDirName = "unset"
    /\ mcaDirs = {}
    /\ mcaFiles = {}
    /\ overwrite = FALSE
    /\ dataCompressionRank = DefaultCompressionRank
    /\ entryname = 0
    /\ nxdatadesc = << >>
    /\ nxfile = << >>
    /\ raised = "None"
    /\ base_filename = "None"
    /\ dynamicCP = DefaultDynamicCP
    /\ registered = {}
    /\ svcLog = << >>
    /\ dynArgs = NoArgs
    /\ cnfComponents = {}

\* no configuration read and no getter called yet
SettingsIdle ==
    /\ conf = << >>
    /\ settings = << >>
    /\ got = [fn |-> "none"]
    /\ configured = [outcome |-> "none"]

\* start_action not called yet
TgIdle ==
    /\ tgState = "idle"
    /\ tgConfig = << >>
    /\ tgLog = << >>
    /\ tgMoving = {}

InitResolve ==
    /\ ResolverInputs
    /\ NoResult
    /\ NoRecorder
    /\ SettingsIdle
    /\ TgIdle
    /\ klass = "NXS"
    /\ dirExists = TRUE
    /\ datadesc = << >>

SearchDataSources ==
    /\ ~resolved
    /\ LET cs == Cmps(nexuscomponents, availableComps)
           found == DsFoundOf(catalog, broken, datasources, cs)
           notFound == DsNotFoundOf(found, nexuscomponents, cfm,
                                    datasources, dynamicDataSources)
       IN  /\ dsFound' = found
           /\ dsNotFound' = notFound
           /\ \E order \in Orders(cs) :
                 cpReq' = CpReqLoop(catalog, broken, datasources, order, << >>)
           /\ missingKeys' = MissingKeysOf(userkeys, KeyFoundOf(catalog, broken, cs))
           /\ warned' = WarnedOf(notFound, dyncp)
    /\ resolved' = TRUE
    /\ UNCHANGED <<factoryVars, settingsVars, tgVars, resolverIn, recorderVars>>

NextResolve == SearchDataSources

SpecResolve == InitResolve /\ [][NextResolve]_vars


(***************************************************************************)
(* The run environment shared by the file recorders: descriptors, record   *)
(* values and their rendering.                                             *)
(***************************************************************************)
\* the supported element types of BaseNEXUS_FileRecorder the runs use
SupportedDtypes == {"float64", "int32", "int8"}

\* a descriptor (ColumnDesc): name, label (a string, as its characters),
\* shape and element type
Desc(n, l, sh, dt) == [name |-> n, label |-> l, shape |-> sh, dtype |-> dt]

\* Python values of a record: a float, an int, None, or an array
Float(x) == [kind |-> "float", v |-> <<x>>]
PyInt(n) == [kind |-> "int", v |-> <<n>>]
NoneValue == [kind |-> "None", v |-> << >>]
Array(xs) == [kind |-> "array", v |-> xs]

\* str(x) of a float, floats being given in tenths: 105 is 10.5
StrFloat(x) ==
    CASE x = 0 -> "0.0" [] x = 1 -> "0.1" [] x = 10 -> "1.0"
      [] x = 105 -> "10.5" [] x = 112 -> "11.2" [] OTHER -> "float"

\* str(n) of a small integer
StrInt(n) ==
    CASE n = 0 -> "0" [] n = 1 -> "1" [] n = 2 -> "2" [] n = 3 -> "3"
      [] n = 4 -> "4" [] n = 5 -> "5" [] n = 6 -> "6" [] OTHER -> "int"

\* str(value) of a Python value
Str(val) ==
    CASE val.kind = "float" -> StrFloat(val.v[1])
      [] val.kind = "int" -> StrInt(val.v[1])
      [] val.kind = "None" -> "None"
      [] OTHER -> "[array]"

\* record.data.get(c): None when the key is absent
Get(data, c) == IF c \in DOMAIN data THEN data[c] ELSE NoneValue

\* x.isalnum() of a character
IsAlnum(c) == c \in {"m", "d", "f", "t", "c", "1"}

\* the characters of a string that pass "x.isalnum() or x == '_'" after
\* replace(' ', '_')
RECURSIVE KeepAlnum(_)
KeepAlnum(str) ==
    IF str = << >> THEN << >>
    ELSE LET c == IF Head(str) = " " THEN "_" ELSE Head(str)
         IN  (IF IsAlnum(c) \/ c = "_" THEN <<c>> ELSE << >>)
                \o KeepAlnum(Tail(str))

(***************************************************************************)
(* The file system as the recorders see it.                                *)
(***************************************************************************)
\* content of a file after open(filename, mode) for mode 'a' or 'w'
OpenedContent(mode, lines) == IF mode = "a" THEN lines ELSE << >>

\* outcomes of the I/O of one handler: ok, open() raises, write() raises
IoOutcomes == {"ok", "open", "write"}

(***************************************************************************)
(* SPEC_FileRecorder                                                       *)
(***************************************************************************)
\* the test of _startRecordList on a descriptor's shape
IsSpecScalar(e) ==
    Len(e.shape) = 0 \/ (Len(e.shape) = 1 /\ e.shape[1] = 1)

\* names of _startRecordList: the descriptors with a scalar shape, in order
RECURSIVE ScalarNames(_)
ScalarNames(dd) ==
    IF dd = << >> THEN << >>
    ELSE (IF IsSpecScalar(Head(dd)) THEN <<Head(dd).name>> ELSE << >>)
            \o ScalarNames(Tail(dd))

\* labels of _startRecordList: the sanitized labels of the same descriptors
RECURSIVE ScalarLabels(_)
ScalarLabels(dd) ==
    IF dd = << >> THEN << >>
    ELSE (IF IsSpecScalar(Head(dd)) THEN <<KeepAlnum(Head(dd).label)>> ELSE << >>)
            \o ScalarLabels(Tail(dd))

\* _startRecordList opening the file with mode 'w'
SpecOpenMode_Truncate == "w"

\* the mode _startRecordList opens the file with
SpecOpenMode == "a"

\* the header of _startRecordList (no pre-scan snapshot in the environment:
\* _prepareMultiLines yields no #O / #P line)
SpecHeader(existed, serial, dd) ==
    (IF existed THEN << <<"blank", << >> >> >> ELSE << >>)
    \o << <<"#S", <<StrInt(serial)>> >>,
          <<"#U", << >> >>,
          <<"#D", << >> >>,
          <<"#C", <<"started">> >>,
          <<"#N", <<StrInt(Len(ScalarNames(dd)))>> >>,
          <<"#L", ScalarLabels(dd)>> >>

\* one value of a body line without the test "if data is None"
SpecRender_NoNan(data, c) == Str(Get(data, c))

\* one value of a body line: str(data), None replaced by nan
SpecRender(data, c) ==
    LET val == Get(data, c)
    IN  IF val.kind = "None" THEN "nan" ELSE Str(val)

\* the body line of _writeRecord
SpecBodyLine(data, ns) ==
    <<"data", [i \in 1..Len(ns) |-> SpecRender(data, ns[i])]>>

\* SPEC_FileRecorder.__init__ and setFileName: arg is the filename argument
\* ("None" when the recorder gets none), mk whether os.makedirs succeeds
SPEC_New(arg, mk) ==
    /\ klass = "SPEC"
    /\ pc \in {"none", "ended", "failed"}
    /\ runs < MaxRuns
    /\ runs' = runs + 1
    /\ pc' = "new"
    /\ fd' = "None"
    /\ IF arg = "None"
       THEN /\ filename' = "None"
            /\ UNCHANGED dirExists
       ELSE IF dirExists
            THEN /\ filename' = arg
                 /\ UNCHANGED dirExists
            ELSE IF mk
                 THEN /\ filename' = arg
                      /\ dirExists' = TRUE
                 ELSE /\ filename' = "None"
                      /\ UNCHANGED dirExists
    /\ names' = << >>
    /\ calls' = << >>
    /\ UNCHANGED <<klass, nrec, ncustom, serialno, datadesc, fileExists, fileLines, runMark>>
    /\ UNCHANGED <<factoryVars, settingsVars, tgVars, resolverIn, resolverOut, fioVars, nxscanVars, nxsVars>>

\* SPEC_FileRecorder._startRecordList
SPEC_Start(serial, io) ==
    /\ klass = "SPEC"
    /\ pc = "new"
    /\ serialno' = serial
    /\ calls' = << >>
    /\ runMark' = Len(fileLines)
    /\ IF filename = "None"
       THEN /\ pc' = "started"
            /\ UNCHANGED <<fd, names, fileExists, fileLines>>
       ELSE /\ names' = ScalarNames(datadesc)
            /\ IF ~dirExists \/ io = "open"
               THEN \* open() raises IOError
                    /\ pc' = "failed"
                    /\ UNCHANGED <<fd, fileExists, fileLines>>
               ELSE /\ fd' = "open"
                    /\ fileExists' = TRUE
                    /\ IF io = "write"
                       THEN /\ pc' = "failed"
                            /\ fileLines' = OpenedContent(SpecOpenMode, fileLines)
                       ELSE /\ pc' = "started"
                            /\ fileLines' =
                                  OpenedContent(SpecOpenMode, fileLines)
                                     \o SpecHeader(fileExists, serial, datadesc)
    /\ UNCHANGED <<klass, filename, runs, nrec, ncustom, datadesc, dirExists>>
    /\ UNCHANGED <<factoryVars, settingsVars, tgVars, resolverIn, resolverOut, fioVars, nxscanVars, nxsVars>>

\* SPEC_FileRecorder._writeRecord
SPEC_WriteRecord(data, io) ==
    /\ klass = "SPEC"
    /\ pc = "started"
    /\ nrec < MaxRecords
    /\ nrec' = nrec + 1
    /\ IF filename = "None"
       THEN UNCHANGED <<pc, fileLines, calls>>
       ELSE IF io = "write"
            THEN /\ pc' = "failed"
                 /\ UNCHANGED <<fileLines, calls>>
            ELSE /\ fileLines' = Append(fileLines, SpecBodyLine(data, names))
                 /\ calls' = Append(calls, data)
                 /\ UNCHANGED pc
    /\ UNCHANGED <<klass, filename, fd, runs, ncustom, serialno, datadesc,
                   dirExists, fileExists, runMark, names>>
    /\ UNCHANGED <<factoryVars, settingsVars, tgVars, resolverIn, resolverOut, fioVars, nxscanVars, nxsVars>>

\* SPEC_FileRecorder._endRecordList
SPEC_End(io) ==
    /\ klass = "SPEC"
    /\ pc = "started"
    /\ IF filename = "None"
       THEN /\ pc' = "ended"
            /\ UNCHANGED <<fd, fileLines>>
       ELSE IF io = "write"
            THEN /\ pc' = "failed"
                 /\ UNCHANGED <<fd, fileLines>>
            ELSE /\ fileLines' = Append(fileLines, <<"#C", <<"ended">> >>)
                 /\ fd' = "closed"
                 /\ pc' = "ended"
    /\ UNCHANGED <<klass, filename, runs, nrec, ncustom, serialno, datadesc, calls,
                   dirExists, fileExists, runMark, names>>
    /\ UNCHANGED <<factoryVars, settingsVars, tgVars, resolverIn, resolverOut, fioVars, nxscanVars, nxsVars>>

\* the values _addCustomData may get: a scalar, a non-scalar, or one whose
\* string holds an end-of-line
CustomValues == {"scalar", "array", "multiline"}

\* SPEC_FileRecorder._addCustomData
SPEC_AddCustomData(value, io) ==
    /\ klass = "SPEC"
    /\ pc \in {"new", "started", "ended", "failed"}
    /\ ncustom < MaxCustom
    /\ ncustom' = ncustom + 1
    /\ IF filename = "None" \/ value # "scalar"
       THEN UNCHANGED <<fd, fileExists, fileLines>>
       ELSE LET fileWasClosed == fd \in {"None", "closed"}
            IN  IF fileWasClosed /\ (~dirExists \/ io = "open")
                THEN UNCHANGED <<fd, fileExists, fileLines>>
                ELSE IF io = "write"
                     THEN \* write() raises: the file stays open
                          /\ fd' = "open"
                          /\ fileExists' = TRUE
                          /\ UNCHANGED fileLines
                     ELSE /\ fileLines' = Append(OpenedContent("a", fileLines),
                                                 <<"#C", <<"custom">> >>)
                          /\ fileExists' = TRUE
                          /\ fd' = IF fileWasClosed THEN "closed" ELSE fd
    /\ UNCHANGED <<klass, pc, filename, runs, nrec, serialno, datadesc, calls,
                   dirExists, runMark, names>>
    /\ UNCHANGED <<factoryVars, settingsVars, tgVars, resolverIn, resolverOut, fioVars, nxscanVars, nxsVars>>

\* the resolution is not part of the life cycle of these recorders
ResolverIdle ==
    /\ catalog = [cp \in Comps |-> {}]
    /\ broken = {}
    /\ usercomponents = {}
    /\ mandatory = {}
    /\ nexuscomponents = {}
    /\ availableComps = {}
    /\ cfm = FALSE
    /\ dyncp = TRUE
    /\ datasources = {}
    /\ dynamicDataSources = {}
    /\ userkeys = {}
    /\ NoResult

\* the descriptor lists and records of the runs of the SPEC recorder
SpecDescLists ==
    { <<Desc("mot1", <<"m", "1">>, << >>, "float64"),
        Desc("mca1", <<"m", "c">>, <<2>>, "float64"),
        Desc("det1", <<"d", " ", "1">>, <<1>>, "int32")>>,
      <<Desc("mca1", <<"m", "c">>, <<2>>, "float64")>> }

SpecRecordInputs ==
    { [mot1 |-> Float(0), det1 |-> Float(105), mca1 |-> Array(<<1, 2>>)],
      [mot1 |-> NoneValue, mca1 |-> Array(<<3>>)] }

\* the serial numbers a run may get: one used before, or the next new one
SerialChoices == {n \in 1..runs : n = 1 \/ <<"#S", <<StrInt(n - 1)>> >> \in
                                                {fileLines[i] : i \in 1..Len(fileLines)}}

InitSPEC ==
    /\ ResolverIdle
    /\ NoRecorder
    /\ SettingsIdle
    /\ TgIdle
    /\ klass = "SPEC"
    /\ dirExists \in BOOLEAN
    /\ datadesc \in SpecDescLists

NextSPEC ==
    \/ \E arg \in {"None", "scan.spec"}, mk \in BOOLEAN : SPEC_New(arg, mk)
    \/ \E serial \in SerialChoices, io \in IoOutcomes : SPEC_Start(serial, io)
    \/ \E data \in SpecRecordInputs, io \in {"ok", "write"} : SPEC_WriteRecord(data, io)
    \/ \E io \in {"ok", "write"} : SPEC_End(io)
    \/ \E value \in CustomValues, io \in IoOutcomes : SPEC_AddCustomData(value, io)

SpecSPEC == InitSPEC /\ [][NextSPEC]_vars

(***************************************************************************)
(* FIO_FileRecorder: the main file holds a comment, a parameter and a data *)
(* section; the traces of the 1-D descriptors go to one sidecar file per   *)
(* point. fileLines is the content of the file self.filename names.        *)
(***************************************************************************)
\* the file name setFileName makes of the base name and the serial number
FioFileName(serial) ==
    CASE serial = 1 -> "scan_00001.fio" [] serial = 2 -> "scan_00002.fio"
      [] serial = 3 -> "scan_00003.fio" [] OTHER -> "scan_0000n.fio"

\* the directory of the sidecar files setFileName prepares
FioMcaDir(serial) ==
    CASE serial = 1 -> "scan_00001" [] serial = 2 -> "scan_00002"
      [] serial = 3 -> "scan_00003" [] OTHER -> "scan_0000n"

\* the file name of __init__, where no record list exists yet
FioInitName == "scan_[ScanId].fio"

\* the test of _startRecordList that makes a descriptor a trace (MCA)
IsFioMca(e) == Len(e.shape) = 1

\* self.mcaNames: the names of the descriptors with a 1-D shape, in order
RECURSIVE FioMcaNames(_)
FioMcaNames(dd) ==
    IF dd = << >> THEN << >>
    ELSE (IF IsFioMca(Head(dd)) THEN <<Head(dd).name>> ELSE << >>)
            \o FioMcaNames(Tail(dd))

\* self.ctNames: the names of the other descriptors, in order
RECURSIVE FioCtNames(_)
FioCtNames(dd) ==
    IF dd = << >> THEN << >>
    ELSE (IF IsFioMca(Head(dd)) THEN << >> ELSE <<Head(dd).name>>)
            \o FioCtNames(Tail(dd))

\* self.db.get_alias of the device a trace is named after
FioAlias(name) ==
    CASE name = "exp/mca/1" -> "mca1" [] name = "exp/mca/2" -> "mca2"
      [] OTHER -> "alias"

\* the descriptors the header declares a column for
RECURSIVE FioColumns(_)
FioColumns(dd) ==
    IF dd = << >> THEN << >>
    ELSE (IF Head(dd).name \in {"point_nb", "timestamp"} THEN << >>
          ELSE <<Head(dd)>>) \o FioColumns(Tail(dd))

\* the type a Col line names
FioType(dtype) == IF dtype = "float64" THEN "DOUBLE" ELSE "FLOAT"

\* the Col lines of the header: one per declared descriptor, timestamp last
FioColLines(dd) ==
    LET cols == FioColumns(dd)
    IN  [i \in 1..Len(cols) |->
            <<"Col", <<StrInt(i), cols[i].label, FioType(cols[i].dtype)>> >>]
        \o << <<"Col", <<StrInt(Len(cols) + 1), <<"timestamp">>, "DOUBLE">> >> >>

\* the header of _startRecordList (FlagFioWriteMotorPositions is not set)
FioHeader(dd) ==
    << <<"%c", <<"started">> >>, <<"%p", << >> >>, <<"%d", << >> >> >>
        \o FioColLines(dd)

\* str(record.data.get(c, nan)): nan when the key is absent
FioRender(data, c) == IF c \in DOMAIN data THEN Str(data[c]) ELSE "nan"

\* the names of ctNames _writeRecord writes a value for
RECURSIVE FioBodyNames(_)
FioBodyNames(ns) ==
    IF ns = << >> THEN << >>
    ELSE (IF Head(ns) \in {"timestamp", "point_nb"} THEN << >> ELSE <<Head(ns)>>)
            \o FioBodyNames(Tail(ns))

\* the body line of _writeRecord: the values of ctNames, timestamp last
FioBodyLine(data, ns) ==
    <<"data", [i \in 1..Len(FioBodyNames(ns)) |-> FioRender(data, FioBodyNames(ns)[i])]
                 \o <<FioRender(data, "timestamp")>> >>

\* len(record.data[mca]) of a trace
TraceLen(data, mca) == Len(data[mca].v)

\* lMax of _writeMcaFile: the length of the longest trace
McaRows(data, mcas) ==
    CHOOSE l \in {TraceLen(data, mcas[i]) : i \in 1..Len(mcas)} :
        \A i \in 1..Len(mcas) : TraceLen(data, mcas[i]) <= l

\* one row of a sidecar file without the padding of the short traces
McaRow_NoPadding(data, mcas, i) ==
    [k \in 1..Len(mcas) |->
        IF i > TraceLen(data, mcas[k]) THEN "" ELSE StrInt(data[mcas[k]].v[i])]

\* row i (from 1) of a sidecar file: one value per trace, 0 past its end
McaRow(data, mcas, i) ==
    [k \in 1..Len(mcas) |->
        IF i > TraceLen(data, mcas[k]) THEN "0" ELSE StrInt(data[mcas[k]].v[i])]

\* the record of point n with the values given
FioRecord(values, n) == ("point_nb" :> PyInt(n)) @@ values

\* the sidecar file _writeMcaFile writes for a record, as far as it gets:
\* it is closed only when the first trace holds data, and len() of a trace
\* that is None raises after the header
McaFile(serial, data, mcas) ==
    LET full == data[mcas[1]].kind # "None"
                   /\ \A k \in 1..Len(mcas) : data[mcas[k]].kind = "array"
    IN  [serial |-> serial,
         point |-> data["point_nb"].v[1] + 1,
         cols |-> [k \in 1..Len(mcas) |-> FioAlias(mcas[k])],
         rows |-> IF full
                  THEN [i \in 1..McaRows(data, mcas) |-> McaRow(data, mcas, i)]
                  ELSE << >>,
         closed |-> full]

\* whether _writeMcaFile raises on the record: a later trace is None while
\* the first one holds data
McaRaises(data, mcas) ==
    /\ data[mcas[1]].kind # "None"
    /\ \E k \in 1..Len(mcas) : data[mcas[k]].kind = "None"

\* open(mcaFileName, 'w') replaces a sidecar file of the same name
McaWritten(files, f) ==
    {g \in files : ~(g.serial = f.serial /\ g.point = f.point)} \cup {f}

\* FIO_FileRecorder.__init__ and its setFileName: arg is the filename
\* argument, mk whether os.makedirs succeeds
FIO_New(arg, mk) ==
    /\ klass = "FIO"
    /\ pc \in {"none", "ended", "failed"}
    /\ runs < MaxRuns
    /\ runs' = runs + 1
    /\ pc' = "new"
    /\ fd' = "None"
    /\ base_filename' = arg
    /\ calls' = << >>
    /\ ctNames' = << >>
    /\ mcaNames' = << >>
    /\ mcaDirName' = "unset"
    /\ IF arg = "None"
       THEN /\ filename' = "None"
            /\ UNCHANGED dirExists
       ELSE /\ filename' = IF dirExists \/ mk THEN FioInitName ELSE "None"
            /\ dirExists' = (dirExists \/ mk)
    /\ UNCHANGED <<klass, nrec, ncustom, serialno, datadesc, fileExists, fileLines,
                   runMark, mcaDirs, mcaFiles>>
    /\ UNCHANGED <<factoryVars, settingsVars, tgVars, resolverIn, resolverOut, specVars, nxscanVars, dynamicCP,
                   registered, svcLog, dynArgs, cnfComponents>>

\* FIO_FileRecorder._startRecordList: setFileName, the split of the
\* descriptors, open(self.filename, 'w') and the header
FIO_Start(serial, mk, io) ==
    /\ klass = "FIO"
    /\ pc = "new"
    /\ serialno' = serial
    /\ runMark' = 0
    /\ IF base_filename = "None"
       THEN /\ pc' = "started"
            /\ UNCHANGED <<filename, fd, dirExists, fileExists, fileLines,
                           ctNames, mcaNames, mcaDirName>>
       ELSE /\ ctNames' = FioCtNames(datadesc)
            /\ mcaNames' = FioMcaNames(datadesc)
            /\ dirExists' = (dirExists \/ mk)
            /\ IF ~(dirExists \/ mk)
               THEN \* self.filename is None and open(None, 'w') raises
                    /\ filename' = "None"
                    /\ pc' = "failed"
                    /\ UNCHANGED <<fd, fileExists, fileLines, mcaDirName>>
               ELSE /\ filename' = FioFileName(serial)
                    /\ mcaDirName' = FioMcaDir(serial)
                    /\ IF io = "open"
                       THEN /\ pc' = "failed"
                            /\ UNCHANGED <<fd, fileExists, fileLines>>
                       ELSE /\ fd' = "open"
                            /\ fileExists' = TRUE
                            /\ IF io = "write"
                               THEN /\ pc' = "failed"
                                    /\ fileLines' = OpenedContent("w", fileLines)
                               ELSE /\ pc' = "started"
                                    /\ fileLines' = OpenedContent("w", fileLines)
                                                       \o FioHeader(datadesc)
    /\ UNCHANGED <<klass, runs, nrec, ncustom, datadesc, calls, mcaDirs, mcaFiles>>
    /\ UNCHANGED <<factoryVars, settingsVars, tgVars, resolverIn, resolverOut, specVars, nxscanVars, nxsVars>>

\* FIO_FileRecorder._writeRecord with _writeMcaFile: mk tells whether the
\* os.makedirs of the sidecar directory succeeds; the record of the point
\* holds the point number the scan gives it
FIO_WriteRecord(values, io, mk) ==
    /\ klass = "FIO"
    /\ pc = "started"
    /\ nrec < MaxRecords
    /\ nrec' = nrec + 1
    /\ LET data == FioRecord(values, Len(calls)) IN
       IF filename = "None"
       THEN UNCHANGED <<pc, fileLines, calls, mcaDirName, mcaDirs, mcaFiles>>
       ELSE IF io = "write"
            THEN /\ pc' = "failed"
                 /\ UNCHANGED <<fileLines, calls, mcaDirName, mcaDirs, mcaFiles>>
            ELSE /\ fileLines' = Append(fileLines, FioBodyLine(data, ctNames))
                 /\ calls' = Append(calls, data)
                 /\ IF mcaNames = << >> \/ mcaDirName = "None"
                    THEN UNCHANGED <<pc, mcaDirName, mcaDirs, mcaFiles>>
                    ELSE IF serialno \notin mcaDirs /\ ~mk
                    THEN /\ mcaDirName' = "None"
                         /\ UNCHANGED <<pc, mcaDirs, mcaFiles>>
                    ELSE /\ mcaDirs' = mcaDirs \cup {serialno}
                         /\ mcaFiles' =
                               McaWritten(mcaFiles, McaFile(serialno, data, mcaNames))
                         /\ pc' = IF McaRaises(data, mcaNames)
                                  THEN "failed" ELSE pc
                         /\ UNCHANGED mcaDirName
    /\ UNCHANGED <<klass, filename, fd, runs, ncustom, serialno, datadesc,
                   dirExists, fileExists, runMark, ctNames, mcaNames>>
    /\ UNCHANGED <<factoryVars, settingsVars, tgVars, resolverIn, resolverOut, specVars, nxscanVars, nxsVars>>

\* FIO_FileRecorder._endRecordList
FIO_End(io) ==
    /\ klass = "FIO"
    /\ pc = "started"
    /\ IF filename = "None"
       THEN /\ pc' = "ended"
            /\ UNCHANGED <<fd, fileLines>>
       ELSE IF io = "write"
            THEN /\ pc' = "failed"
                 /\ UNCHANGED <<fd, fileLines>>
            ELSE /\ fileLines' = Append(fileLines, <<"!", <<"ended">> >>)
                 /\ fd' = "closed"
                 /\ pc' = "ended"
    /\ UNCHANGED <<klass, filename, runs, nrec, ncustom, envVars, dirExists,
                   fileExists, runMark, fioVars>>
    /\ UNCHANGED <<factoryVars, settingsVars, tgVars, resolverIn, resolverOut, specVars, nxscanVars, nxsVars>>

\* the descriptor lists of the runs of the FIO recorder: scalars only, and
\* scalars with two traces
FioDescLists ==
    { <<Desc("point_nb", <<"p">>, << >>, "int64"),
        Desc("mot1", <<"m", "1">>, << >>, "float64"),
        Desc("det1", <<"d", "1">>, << >>, "int32"),
        Desc("timestamp", <<"t">>, << >>, "float64")>>,
      <<Desc("mot1", <<"m", "1">>, << >>, "float64"),
        Desc("exp/mca/1", <<"m", "c">>, <<2>>, "float64"),
        Desc("det1", <<"d", "1">>, << >>, "int32"),
        Desc("exp/mca/2", <<"m", "d">>, <<2>>, "float64")>> }

\* the values of a record: every key present, or the detector absent and
\* the first or the second trace None
FioRecordInputs ==
    LET common == ("mot1" :> Float(10)) @@ ("timestamp" :> Float(1))
    IN  { common @@ ("det1" :> Float(105))
             @@ ("exp/mca/1" :> Array(<<1, 2>>)) @@ ("exp/mca/2" :> Array(<<3>>)),
          common @@ ("exp/mca/1" :> NoneValue) @@ ("exp/mca/2" :> Array(<<3>>)),
          common @@ ("det1" :> NoneValue)
             @@ ("exp/mca/1" :> Array(<<1>>)) @@ ("exp/mca/2" :> NoneValue) }

InitFIO ==
    /\ ResolverIdle
    /\ NoRecorder
    /\ SettingsIdle
    /\ TgIdle
    /\ klass = "FIO"
    /\ dirExists \in BOOLEAN
    /\ datadesc \in FioDescLists

NextFIO ==
    \/ \E arg \in {"None", "scan.fio"}, mk \in BOOLEAN : FIO_New(arg, mk)
    \/ \E serial \in 1..runs, mk \in BOOLEAN, io \in IoOutcomes :
          FIO_Start(serial, mk, io)
    \/ \E values \in FioRecordInputs, io \in {"ok", "write"}, mk \in BOOLEAN :
          FIO_WriteRecord(values, io, mk)
    \/ \E io \in {"ok", "write"} : FIO_End(io)

SpecFIO == InitFIO /\ [][NextFIO]_vars

(***************************************************************************)
(* The factory FileRecorder(filename, macro): a path is a sequence of      *)
(* tokens, "." and "/" being the dot and the separator, every other token  *)
(* a run of other characters.                                              *)
(***************************************************************************)
\* str.lower() of a token
Lower(t) ==
    CASE t = "FIO" -> "fio" [] t = "H5" -> "h5" [] OTHER -> t

\* the last index of the token t in the path, 0 when it has none (rfind)
RFind(path, t) ==
    IF \E i \in 1..Len(path) : path[i] = t
    THEN CHOOSE i \in 1..Len(path) :
            path[i] = t /\ \A j \in (i + 1)..Len(path) : path[j] # t
    ELSE 0

\* os.path.splitext(path)[1]: from the last dot, when it follows the last
\* separator and some character other than a dot stands between the two
SplitExt(path) ==
    LET sepIndex == RFind(path, "/")
        dotIndex == RFind(path, ".")
    IN  IF dotIndex > sepIndex
           /\ \E i \in (sepIndex + 1)..(dotIndex - 1) : path[i] # "."
        THEN SubSeq(path, dotIndex, Len(path))
        ELSE << >>

\* ext of the factory: the lowered extension, or '.spec' when it is empty
FactoryExt(path) ==
    LET e == SplitExt(path)
    IN  IF e = << >> THEN <<".", "spec">> ELSE [i \in 1..Len(e) |-> Lower(e[i])]

\* the values of the formats tables of the recorder classes
NXscanFormats == { <<".", "h5">>, <<".", "h4">>, <<".", "xml">> }
FIOFormats == { <<".", "fio">> }
NXSFormats == { <<".", "nxs">> }

\* the recorder classes among the globals of the module
RecorderClasses == {"SPEC", "FIO", "NXS", "NXscan"}

\* globals().get(hint): a recorder class, another class, a global that is
\* no class, or None
HintKind(hint) ==
    CASE hint \in RecorderClasses -> "recorder"
      [] hint = "DataFormats" -> "class"
      [] hint = "FileRecorder" -> "function"
      [] OTHER -> "None"

\* the choice of the factory without the hint of the macro
FactoryClass_NoHint(path, hint) ==
    LET ext == FactoryExt(path)
    IN  IF ext \in NXscanFormats THEN "NXscan"
        ELSE IF ext \in FIOFormats THEN "FIO"
        ELSE IF ext \in NXSFormats THEN "NXS"
        ELSE "SPEC"

\* klass of the factory; issubclass raises TypeError on a global that is
\* no class
FactoryClass(path, hint) ==
    LET ext == FactoryExt(path)
    IN  IF HintKind(hint) = "function" THEN "TypeError"
        ELSE IF HintKind(hint) = "recorder" THEN hint
        ELSE IF ext \in NXscanFormats THEN "NXscan"
        ELSE IF ext \in FIOFormats THEN "FIO"
        ELSE IF ext \in NXSFormats THEN "NXS"
        ELSE "SPEC"

\* one call of the factory: what it was given and the class it made a
\* recorder of (the recorder itself starts as the New action of its class)
FileRecorder(path, hint) ==
    /\ klass = "None"
    /\ runs < MaxRuns
    /\ runs' = runs + 1
    /\ made' = made \cup {[path |-> path, hint |-> hint,
                           klass |-> FactoryClass(path, hint)]}
    /\ UNCHANGED <<klass, pc, filename, fd, nrec, ncustom, envVars, fsVars,
                   specVars, fioVars, nxscanVars, nxsVars>>
    /\ UNCHANGED <<resolverIn, resolverOut, settingsVars, tgVars>>

\* the output paths the factory is called with
FactoryPaths ==
    { <<"scan", ".", "fio">>, <<"scan", ".", "nxs">>, <<"scan", ".", "h5">>,
      <<"scan", ".", "h4">>, <<"scan", ".", "xml">>, <<"scan", ".", "spec">>,
      <<"scan", ".", "dat">>, <<"scan">>, <<"scan", ".", "FIO">>,
      <<".", "fio">>, <<"dir", ".", "h5", "/", "scan">>,
      <<"scan", ".", "nxs", ".", "fio">>, <<"scan", ".">> }

\* the values of macro.hints.get('FileRecorder', None)
FactoryHints ==
    {"None", "SPEC", "NXscan", "DataFormats", "FileRecorder", "NoSuchName"}

InitFactory ==
    /\ ResolverIdle
    /\ NoRecorder
    /\ SettingsIdle
    /\ TgIdle
    /\ klass = "None"
    /\ dirExists = TRUE
    /\ datadesc = << >>

NextFactory == \E path \in FactoryPaths, hint \in FactoryHints : FileRecorder(path, hint)

SpecFactory == InitFactory /\ [][NextFactory]_vars

(***************************************************************************)
(* NXscan_FileRecorder (the scan driver uses SaveModes.Record; the         *)
(* environment holds no pre-scan snapshot, no instrument and no plot       *)
(* information: _createPreScanSnapshot, _populateInstrumentInfo and        *)
(* _createNXData create empty groups only).                                *)
(***************************************************************************)
\* name[0].isdigit()
IsDigit(c) == c \in {"1"}

\* BaseNEXUS_FileRecorder.sanitizeName of a label with at least one character
SanitizeName(name) ==
    KeepAlnum(IF IsDigit(name[1]) THEN <<"_">> \o name ELSE name)

\* _startRecordList keeping every descriptor, whatever its type
NxSupported_All(dtype) == TRUE

\* dd.dtype in self.supported_dtypes
NxSupported(dtype) == dtype \in SupportedDtypes

\* the type a descriptor is stored with: bool becomes int8
NxDtype(dtype) == IF dtype = "bool" THEN "int8" ELSE dtype

\* self.datadesc of _startRecordList: clones with the sanitized label and the
\* adapted type, the descriptors of an unsupported type left out
RECURSIVE NxDataDesc(_)
NxDataDesc(dd) ==
    IF dd = << >> THEN << >>
    ELSE LET c == [Head(dd) EXCEPT !.label = SanitizeName(@),
                                   !.dtype = NxDtype(@)]
         IN  (IF NxSupported(c.dtype) THEN <<c>> ELSE << >>)
                \o NxDataDesc(Tail(dd))

\* the positions of self.datadesc whose _makedata call finds the name taken
NxTaken(ndd) ==
    {j \in 1..Len(ndd) : \E i \in 1..(j - 1) : ndd[i].label = ndd[j].label}

\* the descriptors whose dataset _makedata creates before one call raises
NxMade(ndd) ==
    IF NxTaken(ndd) = {} THEN ndd
    ELSE SubSeq(ndd, 1, (CHOOSE j \in NxTaken(ndd) :
                            \A k \in NxTaken(ndd) : j <= k) - 1)

\* env.get(key, default): env is << >> without the key, <<v>> with value v
EnvGet(env, default) == IF env = << >> THEN default ELSE env[1]

\* the shape _startRecordList declares a dataset with: nxs.UNLIMITED (0 here)
\* followed by the descriptor's shape
NxShape(shape) == <<0>> \o shape

\* _makedata: compmakedata unless comprank < 0 or len(shape) < comprank
NxCompressed(shape, comprank) ==
    ~(comprank < 0 \/ Len(shape) < comprank)

\* the extensible datasets of the measurement group: label -> dataset
NxDatasets(ndd, comprank) ==
    [l \in {ndd[i].label : i \in 1..Len(ndd)} |->
        LET d == ndd[CHOOSE i \in 1..Len(ndd) : ndd[i].label = l]
        IN  [owner |-> d.name, dtype |-> d.dtype, shape |-> d.shape,
             compressed |-> NxCompressed(NxShape(d.shape), comprank),
             slabs |-> << >>]]

\* a new entry of the container
NxEntry(datasets) == [datasets |-> datasets, custom |-> {}, ended |-> FALSE]

\* the container with entry n set to e
NxWith(file, n, e) ==
    [s \in DOMAIN file \cup {n} |-> IF s = n THEN e ELSE file[s]]

\* the content nxs.open(filename, mode) starts from: 'rw' keeps the file,
\* the creating modes (w5, w4, wx) make a new one
NxOpened(mode, file) == IF mode = "rw" THEN file ELSE << >>

\* nxfilemode of overwrite = True: the test on the existing file is skipped
NxFileMode_AlwaysCreate(ow, exists) == "w5"

\* nxfilemode of _startRecordList
NxFileMode(ow, exists) == IF ~ow /\ exists THEN "rw" ELSE "w5"

\* the slab of a value without the zero filling of None
NxSlab_Raw(val, shape) == val

\* the data of a slab: numpy.zeros(dd.shape, dtype=dd.dtype) for None, else
\* the value (cast to the type of the descriptor)
NxSlab(val, shape) ==
    IF val = NoneValue THEN [kind |-> "zeros", v |-> shape] ELSE val

\* slab_offset = [rec_nb] + [0] * len(dd.shape)
NxSlabOffset(recordno, shape) == <<recordno>> \o [i \in 1..Len(shape) |-> 0]

\* the datasets after _writeRecord: one putslab, at the offset of recordno,
\* for every descriptor of self.datadesc the record has a key for; slabs
\* lists the putslab calls of a dataset in order
NxWriteSlabs(datasets, data, recordno) ==
    [l \in DOMAIN datasets |->
        IF datasets[l].owner \in DOMAIN data
        THEN [datasets[l] EXCEPT !.slabs =
                Append(@, [offset |-> NxSlabOffset(recordno, datasets[l].shape),
                           value |-> NxSlab(data[datasets[l].owner],
                                            datasets[l].shape)])]
        ELSE datasets[l]]

\* NXscan_FileRecorder.__init__ and setFileName
NXscan_New(arg, ow) ==
    /\ klass = "NXscan"
    /\ pc \in {"none", "ended", "failed"}
    /\ runs < MaxRuns
    /\ runs' = runs + 1
    /\ pc' = "new"
    /\ fd' = "None"
    /\ filename' = arg
    /\ overwrite' = ow
    /\ dataCompressionRank' = DefaultCompressionRank
    /\ entryname' = 0
    /\ nxdatadesc' = << >>
    /\ raised' = "None"
    /\ calls' = << >>
    /\ UNCHANGED <<klass, nrec, ncustom, serialno, datadesc, fsVars, specVars, fioVars,
                   nxfile, nxsVars>>
    /\ UNCHANGED <<factoryVars, settingsVars, tgVars, resolverIn, resolverOut>>

\* NXscan_FileRecorder._startRecordList
NXscan_Start(serial, io, env) ==
    /\ klass = "NXscan"
    /\ pc = "new"
    /\ serialno' = serial
    /\ calls' = << >>
    /\ IF filename = "None"
       THEN \* getFormat() reads self.nxfilemode, which setFileName never set
            /\ pc' = "failed"
            /\ raised' = "AttributeError"
            /\ UNCHANGED <<fd, entryname, nxdatadesc, nxfile, fileExists,
                           dataCompressionRank>>
       ELSE IF ~dirExists \/ io = "open"
       THEN \* nxs.open raises
            /\ pc' = "failed"
            /\ raised' = "open"
            /\ dataCompressionRank' = EnvGet(env, dataCompressionRank)
            /\ UNCHANGED <<fd, entryname, nxdatadesc, nxfile, fileExists>>
       ELSE LET content == NxOpened(NxFileMode(overwrite, fileExists), nxfile)
                ndd == NxDataDesc(datadesc)
            IN  /\ dataCompressionRank' = EnvGet(env, dataCompressionRank)
                /\ fd' = "open"
                /\ fileExists' = TRUE
                /\ entryname' = serial
                /\ IF serial \in DOMAIN content
                   THEN \* makegroup raises: the entry exists
                        /\ pc' = "failed"
                        /\ raised' = "entry"
                        /\ nxfile' = content
                        /\ UNCHANGED nxdatadesc
                   ELSE /\ nxdatadesc' = ndd
                        /\ IF io = "write"
                           THEN /\ pc' = "failed"
                                /\ raised' = "write"
                                /\ nxfile' = NxWith(content, serial, NxEntry(<< >>))
                           ELSE IF NxTaken(ndd) # {}
                           THEN /\ pc' = "failed"
                                /\ raised' = "dataset"
                                /\ nxfile' = NxWith(content, serial,
                                                NxEntry(NxDatasets(NxMade(ndd),
                                                    dataCompressionRank')))
                           ELSE /\ pc' = "started"
                                /\ raised' = "None"
                                /\ nxfile' = NxWith(content, serial,
                                                NxEntry(NxDatasets(ndd,
                                                    dataCompressionRank')))
    /\ UNCHANGED <<klass, filename, runs, nrec, ncustom, datadesc, dirExists,
                   fileLines, runMark, specVars, fioVars, overwrite, nxsVars>>
    /\ UNCHANGED <<factoryVars, settingsVars, tgVars, resolverIn, resolverOut>>

\* NXscan_FileRecorder._writeRecord: record.recordno counts from 0
NXscan_WriteRecord(data, io) ==
    /\ klass = "NXscan"
    /\ pc = "started"
    /\ nrec < MaxRecords
    /\ nrec' = nrec + 1
    /\ IF filename = "None"
       THEN UNCHANGED <<pc, raised, nxfile, calls>>
       ELSE IF io = "write"
            THEN /\ pc' = "failed"
                 /\ raised' = "write"
                 /\ UNCHANGED <<nxfile, calls>>
            ELSE /\ nxfile' = [nxfile EXCEPT ![entryname].datasets =
                                    NxWriteSlabs(@, data, Len(calls))]
                 /\ calls' = Append(calls, data)
                 /\ UNCHANGED <<pc, raised>>
    /\ UNCHANGED <<klass, filename, fd, runs, ncustom, serialno, datadesc, fsVars,
                   specVars, fioVars, overwrite, dataCompressionRank, entryname, nxdatadesc, nxsVars>>
    /\ UNCHANGED <<factoryVars, settingsVars, tgVars, resolverIn, resolverOut>>

\* NXscan_FileRecorder._endRecordList
NXscan_End(io) ==
    /\ klass = "NXscan"
    /\ pc = "started"
    /\ IF filename = "None"
       THEN /\ pc' = "ended"
            /\ UNCHANGED <<fd, raised, nxfile>>
       ELSE IF io = "write"
            THEN /\ pc' = "failed"
                 /\ raised' = "write"
                 /\ UNCHANGED <<fd, nxfile>>
            ELSE /\ nxfile' = [nxfile EXCEPT ![entryname].ended = TRUE]
                 /\ fd' = "closed"
                 /\ pc' = "ended"
                 /\ UNCHANGED raised
    /\ UNCHANGED <<klass, filename, runs, nrec, ncustom, envVars, fsVars, specVars, fioVars,
                   overwrite, dataCompressionRank, entryname, nxdatadesc, nxsVars>>
    /\ UNCHANGED <<factoryVars, settingsVars, tgVars, resolverIn, resolverOut>>

\* the values NXscan's _addCustomData may get: one of a supported type, one
\* of a type that is neither supported nor char
NxCustomValues == {"float64", "complex128"}

\* NXscan_FileRecorder._addCustomData, called during or after a run
NXscan_AddCustomData(value, io) ==
    /\ klass = "NXscan"
    /\ pc \in {"started", "ended"}
    /\ filename # "None"
    /\ ncustom < MaxCustom
    /\ ncustom' = ncustom + 1
    /\ IF ~NxSupported(value)
       THEN UNCHANGED <<pc, fd, raised, nxfile>>
       ELSE LET fileWasClosed == fd \in {"None", "closed"}
            IN  IF fileWasClosed /\ (overwrite \/ ~fileExists)
                THEN \* the local nxfilemode is read before it is assigned
                     /\ pc' = "failed"
                     /\ raised' = "UnboundLocalError"
                     /\ UNCHANGED <<fd, nxfile>>
                ELSE IF fileWasClosed /\ io = "open"
                THEN /\ pc' = "failed"
                     /\ raised' = "open"
                     /\ UNCHANGED <<fd, nxfile>>
                ELSE IF io = "write" \/ "custom" \in nxfile[entryname].custom
                THEN \* _createBranch or _makedata raises: the file stays open
                     /\ pc' = "failed"
                     /\ raised' = "write"
                     /\ fd' = "open"
                     /\ UNCHANGED nxfile
                ELSE /\ nxfile' = [nxfile EXCEPT ![entryname].custom =
                                        @ \cup {"custom"}]
                     /\ fd' = IF fileWasClosed THEN "closed" ELSE fd
                     /\ UNCHANGED <<pc, raised>>
    /\ UNCHANGED <<klass, filename, runs, nrec, envVars, fsVars, specVars, fioVars,
                   overwrite, dataCompressionRank, entryname, nxdatadesc, nxsVars>>
    /\ UNCHANGED <<factoryVars, settingsVars, tgVars, resolverIn, resolverOut>>

\* the descriptor lists and records of the runs of the NXscan recorder
NxDescLists ==
    { <<Desc("mot1", <<"m", "1">>, << >>, "float64"),
        Desc("text", <<"t", "-">>, << >>, "char"),
        Desc("flag", <<"1", "f">>, << >>, "bool")>>,
      <<Desc("text", <<"t", "-">>, << >>, "char"),
        Desc("mca1", <<"m", "c">>, <<2>>, "float64"),
        Desc("flag", <<"1", "f">>, << >>, "bool")>>,
      <<Desc("mot1", <<"-", "1", "m">>, << >>, "float64"),
        Desc("flag", <<"m", " ", "c">>, << >>, "int32")>> }

\* the DataCompressionRank of a run environment: absent, or a threshold
NxEnvRanks == {<< >>, <<2>>}

NxRecordInputs ==
    { [mot1 |-> Float(0), flag |-> Float(1), text |-> Float(0),
       mca1 |-> Array(<<1, 2>>)],
      [mot1 |-> NoneValue, mca1 |-> NoneValue] }

InitNXscan ==
    /\ ResolverIdle
    /\ NoRecorder
    /\ SettingsIdle
    /\ TgIdle
    /\ klass = "NXscan"
    /\ dirExists \in BOOLEAN
    /\ datadesc \in NxDescLists

NextNXscan ==
    \/ \E arg \in {"None", "scan.h5"}, ow \in BOOLEAN : NXscan_New(arg, ow)
    \/ \E serial \in 1..runs, io \in IoOutcomes, env \in NxEnvRanks : NXscan_Start(serial, io, env)
    \/ \E data \in NxRecordInputs, io \in {"ok", "write"} : NXscan_WriteRecord(data, io)
    \/ \E io \in {"ok", "write"} : NXscan_End(io)
    \/ \E value \in NxCustomValues, io \in IoOutcomes : NXscan_AddCustomData(value, io)

SpecNXscan == InitNXscan /\ [][NextNXscan]_vars

(***************************************************************************)
(* NXS_FileRecorder with the settings service (NXSRecSelector) and the     *)
(* writer service (NXSDataWriter).  A call to a service that raises has no *)
(* effect at the service.  The configuration of the settings service holds *)
(* every variable __getConfVar is asked for, AppendEntry being true.       *)
(***************************************************************************)
\* the names the settings service may give a dynamic component
DynNames == {"__dynamic_component__", "__dynamic_component__1"}

\* one call to a service and its outcome, "ok" or "raise"
Call(name, outcome) == <<name, outcome>>

\* the calls a handler makes in order until the first one raises: ns are
\* the names of the calls it would make without a failure
RECURSIVE CallsUntil(_, _)
CallsUntil(ns, fail) ==
    IF ns = << >> THEN << >>
    ELSE IF Head(ns) = fail THEN <<Call(Head(ns), "raise")>>
    ELSE <<Call(Head(ns), "ok")>> \o CallsUntil(Tail(ns), fail)

\* whether the call named n was made and returned
Returned(log, n) == \E i \in 1..Len(log) : log[i] = Call(n, "ok")

\* __get_alias: a name without "/" is taken for an alias, any other name is
\* looked up in the database, "None" standing for a lookup that raises or
\* finds no alias
GetAlias(name) ==
    CASE name \in DsNames -> name
      [] name = "exp/ct/1" -> "det1"
      [] OTHER -> "None"

\* lddict of __createDynamicComponent: name, shape and dtype of the
\* descriptors whose alias is one of dss
RECURSIVE DynamicDescs(_, _)
DynamicDescs(dd, dss) ==
    IF dd = << >> THEN << >>
    ELSE LET alias == GetAlias(Head(dd).name)
         IN  (IF alias \in DOMAIN dss /\ dss[alias] > 0
              THEN <<[name |-> Head(dd).name, shape |-> Head(dd).shape,
                      dtype |-> Head(dd).dtype]>>
              ELSE << >>) \o DynamicDescs(Tail(dd), dss)

\* the three arguments of createDynamicComponent: jdss, jddict, jkeys
DynamicCall(args, dd) ==
    [dss |-> args.dss, keys |-> args.keys, dds |-> DynamicDescs(dd, args.dss)]

\* __createConfiguration handing dsNotFound whatever DynamicComponents is
DynamicArgs_Always(notFound, keys, dynamic) == [dss |-> notFound, keys |-> keys]

\* the arguments of __createDynamicComponent in __createConfiguration:
\* dsNotFound if dyncp else [], and missingKeys
DynamicArgs(notFound, keys, dynamic) ==
    [dss |-> IF dynamic THEN notFound ELSE EmptyBag, keys |-> keys]

\* __createConfiguration handing the user components only
ConfigComponents_UserOnly(user, cp, req, fromMntGrp) == user \cup {cp}

\* the list __createConfiguration hands to createConfiguration: the user
\* components, the dynamic component and, if cfm, the keys of cpReq
ConfigComponents(user, cp, req, fromMntGrp) ==
    (user \cup {cp}) \cup (IF fromMntGrp THEN DOMAIN req ELSE {})

\* whether the call named n was made, whatever its outcome
Called(log, n) == \E i \in 1..Len(log) : log[i][1] = n

\* the clean-up of an except / finally clause without the request
OnError_NoCleanup(reg, cp, retryFails) == reg

\* the registered components after __removeDynamicComponent() in an except
\* or finally clause: retryFails tells whether that request raises
OnError(reg, cp, retryFails) == IF retryFails THEN reg ELSE reg \ {cp}

\* the log entry of that request
CleanupCall(retryFails) ==
    Call("removeDynamicComponent", IF retryFails THEN "raise" ELSE "ok")

\* __setFileName of _startRecordList (scanID is None, number is false): the
\* value of self.filename, mk telling whether os.makedirs succeeds
SetFileName(base, dirOk, mk) ==
    IF dirOk \/ mk THEN base ELSE "None"

\* the calls of _startRecordList to the two services, in order
StartCalls ==
    <<"setNexusDevices", "createDynamicComponent", "createConfiguration",
      "removeDynamicComponent", "openFile", "openEntry">>

\* the points at which a handler of the NXS recorder may fail
StartFailures == {"none"} \cup {StartCalls[i] : i \in 1..Len(StartCalls)}

\* NXS_FileRecorder.__init__: hasScanID tells whether the environment
\* holds ScanID (then __setFileName goes on to the directory)
NXS_New(arg, hasScanID, mk, fail) ==
    /\ klass = "NXS"
    /\ pc \in {"none", "ended", "failed"}
    /\ runs < MaxRuns
    /\ runs' = runs + 1
    /\ base_filename' = arg
    /\ dynamicCP' = DefaultDynamicCP
    /\ fd' = "None"
    /\ calls' = << >>
    /\ svcLog' = <<Call("setNexusDevices", IF fail THEN "raise" ELSE "ok")>>
    /\ dynArgs' = NoArgs
    /\ cnfComponents' = {}
    /\ IF fail
       THEN /\ pc' = "failed"
            /\ raised' = "setNexusDevices"
            /\ filename' = "None"
            /\ UNCHANGED dirExists
       ELSE IF ~hasScanID
       THEN \* scanID is -1: __setFileName returns at once
            /\ pc' = "new"
            /\ raised' = "None"
            /\ filename' = "None"
            /\ UNCHANGED dirExists
       ELSE IF arg = "None"
       THEN \* os.path.dirname(None) raises
            /\ pc' = "failed"
            /\ raised' = "AttributeError"
            /\ filename' = "None"
            /\ UNCHANGED dirExists
       ELSE /\ pc' = "new"
            /\ raised' = "None"
            /\ filename' = SetFileName(arg, dirExists, mk)
            /\ dirExists' = (dirExists \/ mk)
    /\ UNCHANGED <<klass, nrec, ncustom, serialno, datadesc, fileExists, fileLines,
                   runMark, specVars, fioVars, overwrite, dataCompressionRank, entryname, nxdatadesc, nxfile,
                   registered>>
    /\ UNCHANGED <<factoryVars, settingsVars, tgVars, resolverIn, resolverOut>>

\* NXS_FileRecorder._startRecordList: fail is the call that raises, retryFails
\* whether the request of the except clause raises, newname the name the
\* settings service gives the dynamic component
NXS_Start(serial, mk, fail, retryFails, newname) ==
    /\ klass = "NXS"
    /\ pc = "new"
    /\ serialno' = serial
    /\ IF base_filename = "None"
       THEN /\ pc' = "started"
            /\ UNCHANGED <<filename, dirExists, dynamicCP, registered, svcLog,
                           dynArgs, cnfComponents, raised, resolverOut>>
       ELSE LET log == CallsUntil(StartCalls, fail)
                created == Returned(log, "createDynamicComponent")
                cp == IF created THEN newname ELSE dynamicCP
                reg1 == IF created THEN registered \cup {newname} ELSE registered
                reg2 == IF Returned(log, "removeDynamicComponent")
                        THEN reg1 \ {cp} ELSE reg1
                cs == Cmps(nexuscomponents, availableComps)
                found == DsFoundOf(catalog, broken, datasources, cs)
                notFound == DsNotFoundOf(found, nexuscomponents, cfm,
                                         datasources, dynamicDataSources)
            IN  /\ IF Returned(log, "setNexusDevices")
                   THEN /\ filename' = SetFileName(base_filename, dirExists, mk)
                        /\ dirExists' = (dirExists \/ mk)
                   ELSE UNCHANGED <<filename, dirExists>>
                /\ IF Returned(log, "setNexusDevices")
                   THEN \* __searchDataSources ran
                        /\ resolved' = TRUE
                        /\ dsFound' = found
                        /\ dsNotFound' = notFound
                        /\ cpReq' = CpReqOf(catalog, broken, datasources, cs)
                        /\ missingKeys' =
                              MissingKeysOf(userkeys, KeyFoundOf(catalog, broken, cs))
                        /\ warned' = WarnedOf(notFound, dyncp)
                        /\ dynArgs' = DynamicCall(DynamicArgs(notFound,
                              MissingKeysOf(userkeys, KeyFoundOf(catalog, broken, cs)),
                              dyncp), datadesc)
                   ELSE UNCHANGED <<resolverOut, dynArgs>>
                /\ IF created
                   THEN cnfComponents' =
                          ConfigComponents(usercomponents, cp,
                              CpReqOf(catalog, broken, datasources, cs), cfm)
                   ELSE UNCHANGED cnfComponents
                /\ dynamicCP' = cp
                /\ IF fail = "none"
                   THEN /\ pc' = "started"
                        /\ raised' = "None"
                        /\ registered' = reg2
                        /\ svcLog' = svcLog \o log
                   ELSE /\ pc' = "failed"
                        /\ raised' = fail
                        /\ registered' = OnError(reg2, cp, retryFails)
                        /\ svcLog' = (svcLog \o log) \o <<CleanupCall(retryFails)>>
    /\ UNCHANGED <<klass, fd, runs, nrec, ncustom, datadesc, calls, fileExists,
                   fileLines, runMark, specVars, fioVars, base_filename,
                   overwrite, dataCompressionRank, entryname, nxdatadesc, nxfile>>
    /\ UNCHANGED <<factoryVars, settingsVars, tgVars, resolverIn>>

\* NXS_FileRecorder._writeRecord
NXS_WriteRecord(data, fail, retryFails) ==
    /\ klass = "NXS"
    /\ pc = "started"
    /\ nrec < MaxRecords
    /\ nrec' = nrec + 1
    /\ IF filename = "None"
       THEN UNCHANGED <<pc, raised, registered, svcLog, calls>>
       ELSE IF fail
            THEN /\ pc' = "failed"
                 /\ raised' = "record"
                 /\ registered' = OnError(registered, dynamicCP, retryFails)
                 /\ svcLog' = svcLog \o <<Call("record", "raise"),
                                          CleanupCall(retryFails)>>
                 /\ UNCHANGED calls
            ELSE /\ svcLog' = Append(svcLog, Call("record", "ok"))
                 /\ calls' = Append(calls, data)
                 /\ UNCHANGED <<pc, raised, registered>>
    /\ UNCHANGED <<klass, filename, fd, runs, ncustom, serialno, datadesc, fsVars,
                   specVars, fioVars, base_filename, dynamicCP, dynArgs, cnfComponents,
                   overwrite, dataCompressionRank, entryname, nxdatadesc, nxfile>>
    /\ UNCHANGED <<factoryVars, settingsVars, tgVars, resolverIn, resolverOut>>

\* EndCalls closing the file before the entry
EndCalls_FileFirst == <<"closeFile", "closeEntry">>

\* the calls of _endRecordList to the writer service, in order
EndCalls == <<"closeEntry", "closeFile">>

\* NXS_FileRecorder._endRecordList: the finally clause asks for the removal
\* on every path, the early return included
NXS_End(fail, retryFails) ==
    /\ klass = "NXS"
    /\ pc = "started"
    /\ LET log == IF filename = "None" THEN << >> ELSE CallsUntil(EndCalls, fail)
           failed == (filename # "None" /\ fail # "none") \/ retryFails
       IN  /\ svcLog' = (svcLog \o log) \o <<CleanupCall(retryFails)>>
           /\ registered' = OnError(registered, dynamicCP, retryFails)
           /\ pc' = IF failed THEN "failed" ELSE "ended"
           /\ raised' = IF retryFails THEN "removeDynamicComponent"
                        ELSE IF failed THEN fail ELSE "None"
    /\ UNCHANGED <<klass, filename, fd, runs, nrec, ncustom, envVars, fsVars,
                   specVars, fioVars, base_filename, dynamicCP, dynArgs, cnfComponents,
                   overwrite, dataCompressionRank, entryname, nxdatadesc, nxfile>>
    /\ UNCHANGED <<factoryVars, settingsVars, tgVars, resolverIn, resolverOut>>

\* NXS_FileRecorder._addCustomData: it changes self.__vars only
NXS_AddCustomData ==
    /\ klass = "NXS"
    /\ pc \in {"new", "started"}
    /\ ncustom < MaxCustom
    /\ ncustom' = ncustom + 1
    /\ UNCHANGED <<klass, pc, filename, fd, runs, nrec, envVars, fsVars,
                   specVars, fioVars, nxscanVars, nxsVars>>
    /\ UNCHANGED <<factoryVars, settingsVars, tgVars, resolverIn, resolverOut>>

\* the configuration the runs of the NXS recorder resolve
NxsResolverInputs ==
    /\ catalog = [cp \in Comps |->
                    IF cp = "base" THEN {[dsname |-> "mot1", strategy |-> "STEP"]}
                    ELSE {[dsname |-> "det1", strategy |-> "STEP"]}]
    /\ broken = {}
    /\ usercomponents \in SUBSET {"base"}
    /\ mandatory \in SUBSET {"base"}
    /\ nexuscomponents = usercomponents \cup mandatory
    /\ availableComps = {"opt"}
    /\ cfm \in BOOLEAN
    /\ dyncp \in BOOLEAN
    /\ datasources = {"mot1", "det1"}
    /\ dynamicDataSources = RawNames
    /\ userkeys = {"x"} \cup OtherKeys

\* the descriptors of the runs of the NXS recorder: a motor named by its
\* alias, a counter with an alias and a channel without one
NxsDataDesc ==
    <<Desc("mot1", <<"m", "1">>, << >>, "float64"),
      Desc("exp/ct/1", <<"d", "1">>, << >>, "int32"),
      Desc("exp/raw/1", <<"m", "c">>, <<2>>, "float64")>>

InitNXS ==
    /\ NxsResolverInputs
    /\ NoResult
    /\ NoRecorder
    /\ SettingsIdle
    /\ TgIdle
    /\ klass = "NXS"
    /\ dirExists \in BOOLEAN
    /\ datadesc = NxsDataDesc

NextNXS ==
    \/ \E arg \in {"None", "scan.nxs"}, hasScanID, mk, fail \in BOOLEAN :
            NXS_New(arg, hasScanID, mk, fail)
    \/ \E mk, retryFails \in BOOLEAN, fail \in StartFailures, newname \in DynNames :
            NXS_Start(runs, mk, fail, retryFails, newname)
    \/ \E data \in NxRecordInputs, fail, retryFails \in BOOLEAN :
            NXS_WriteRecord(data, fail, retryFails)
    \/ \E fail \in {"none", "closeEntry", "closeFile"}, retryFails \in BOOLEAN :
            NXS_End(fail, retryFails)
    \/ NXS_AddCustomData

SpecNXS == InitNXS /\ [][NextNXS]_vars

(***************************************************************************)
(* NXS_FileRecorder.__getConfVar and __getServerVar: the getters of the    *)
(* configuration and of the attributes of the settings service.            *)
(***************************************************************************)
\* Python values of the configuration: a str, a bool, a list of names
PyStr(s) == [kind |-> "str", v |-> <<s>>]
PyBool(b) == [kind |-> "bool", v |-> <<b>>]
PyList(xs) == [kind |-> "list", v |-> xs]
PyDict(keys) == [kind |-> "dict", v |-> keys]

\* json.loads(val): <<decoded>>, or << >> when it raises (a text that is
\* not JSON, or a value that is not a text)
JsonLoads(val) ==
    IF val.kind # "str" THEN << >>
    ELSE CASE val.v[1] = "[\"mot1\"]" -> <<PyList(<<"mot1">>)>>
           [] val.v[1] = "true" -> <<PyBool(TRUE)>>
           [] val.v[1] = "{}" -> <<PyDict(<< >>)>>
           [] val.v[1] = "{\"v\": 1}" -> <<PyDict(<<"v">>)>>
           [] OTHER -> << >>

\* how a call of a getter ends: it returns a value after the warnings
\* given, or it raises
Return(value, warnings) ==
    [outcome |-> "return", value |-> value, warnings |-> warnings]
Raise(exc) == [outcome |-> "raise", value |-> PyStr(exc), warnings |-> << >>]

\* the else branch of both getters: the warning text is formatted with the
\* local variable res, which this branch never bound
NotFound(default) == Raise("UnboundLocalError")

\* the branch of both getters for a value res that was found
Found(res, default, decode) ==
    IF decode
    THEN IF JsonLoads(res) # << >>
         THEN Return(JsonLoads(res)[1], << >>)
         ELSE Return(default, <<"cannot be decoded">>)
    ELSE Return(res, << >>)

\* __getConfVar(var, default, decode, pass_default)
GetConfVar(var, default, decode, pass_default) ==
    IF pass_default THEN Return(default, << >>)
    ELSE IF var \in DOMAIN conf THEN Found(conf[var], default, decode)
    ELSE NotFound(default)

\* __getServerVar(attr, default, decode, pass_default) on the device dev;
\* read tells whether getattr(device, attr) succeeds
GetServerVar(dev, attr, default, decode, pass_default, read) ==
    IF pass_default THEN Return(default, << >>)
    ELSE IF dev # << >> /\ attr # ""
    THEN IF read = "ok" THEN Found(dev[1][attr], default, decode)
         ELSE Raise("DevFailed")
    ELSE NotFound(default)

\* the variables the recorder asks __getConfVar for, and their values
ConfVars == {"TimeZone", "ConfigVariables"}
ConfValues ==
    {PyStr("Europe/Berlin"), PyStr("[\"mot1\"]"), PyStr("{\"v\": 1}"),
     PyBool(TRUE)}

\* self.__conf: some of the variables, each with a value
Confs ==
    UNION {[ks -> ConfValues] : ks \in SUBSET ConfVars}

\* the attributes of the settings device the getters read
SettingsAttrs ==
    [configuration : {PyStr("true"), PyStr("{bad")},
     stepdatasources : {PyList(<< >>), PyList(<<"det1">>)},
     dataSources : {PyList(<< >>), PyList(<<"x">>)},
     configVariables : {PyStr("{}")}]

\* the attribute names __getServerVar is asked for
ServerAttrNames == {"", "configuration", "stepdatasources"}

\* the defaults the callers pass
Defaults == {NoneValue, PyBool(FALSE)}

\* a call of __getConfVar
NXS_GetConfVar(var, default, decode, pass_default) ==
    /\ klass = "NXS"
    /\ got' = [fn |-> "getConfVar", var |-> var, default |-> default,
               decode |-> decode, pass_default |-> pass_default,
               found |-> var \in DOMAIN conf, read |-> "ok",
               res |-> GetConfVar(var, default, decode, pass_default)]
    /\ UNCHANGED <<conf, settings, configured>>
    /\ UNCHANGED <<resolverIn, resolverOut, recorderVars, factoryVars, tgVars>>

\* a call of __getServerVar
NXS_GetServerVar(attr, default, decode, pass_default, read) ==
    /\ klass = "NXS"
    /\ got' = [fn |-> "getServerVar", var |-> attr, default |-> default,
               decode |-> decode, pass_default |-> pass_default,
               found |-> (settings # << >> /\ attr # ""), read |-> read,
               res |-> GetServerVar(settings, attr, default, decode,
                                    pass_default, read)]
    /\ UNCHANGED <<conf, settings, configured>>
    /\ UNCHANGED <<resolverIn, resolverOut, recorderVars, factoryVars, tgVars>>

InitGetters ==
    /\ ResolverIdle
    /\ NoRecorder
    /\ klass = "NXS"
    /\ dirExists = TRUE
    /\ datadesc = << >>
    /\ conf \in Confs
    /\ settings \in {<< >>} \cup {<<a>> : a \in SettingsAttrs}
    /\ got = [fn |-> "none"]
    /\ configured = [outcome |-> "none"]
    /\ TgIdle

NextGetters ==
    \/ \E var \in ConfVars, default \in Defaults, decode \in BOOLEAN,
          pass_default \in BOOLEAN :
            NXS_GetConfVar(var, default, decode, pass_default)
    \/ \E attr \in ServerAttrNames, default \in Defaults, decode \in BOOLEAN,
          pass_default \in BOOLEAN, read \in {"ok", "raise"} :
            NXS_GetServerVar(attr, default, decode, pass_default, read)

SpecGetters == InitGetters /\ [][NextGetters]_vars

(***************************************************************************)
(* NXS_FileRecorder.__createConfiguration from the ConfigVariables on: the *)
(* writes of configVariables and stepdatasources around the                *)
(* createConfiguration call of the settings service.                       *)
(***************************************************************************)
\* json.dumps of a dict of variables
JsonDumps(d) == IF d.v = << >> THEN PyStr("{}") ELSE PyStr("{\"v\": 1}")

\* json.dumps(dict(self.__vars["vars"], **nexusvariables)): the variables of
\* the run, with those of the configuration
JsonDumpsWithVars(d) ==
    IF d.v = << >> THEN PyStr("{\"serialno\": 1}")
    ELSE PyStr("{\"serialno\": 1, \"v\": 1}")

\* list(S) of a set of names
ListOf(S) ==
    PyList(CHOOSE q \in [1..Cardinality(S) -> S] :
              \A x \in S : \E i \in 1..Cardinality(S) : q[i] = x)

\* toswitch: the aliases of the descriptors and the dataSources nds
ToSwitch(dd, nds) ==
    ({GetAlias(dd[i].name) : i \in 1..Len(dd)} \ {"None"})
        \cup {nds.v[i] : i \in 1..Len(nds.v)}

\* the steps of the try block, in order, after which a failure may come
CfgSteps ==
    <<"configVariables", "updateConfigVariables", "dataSources",
      "stepdatasources", "switch", "createConfiguration">>
CfgFailures == {"none"} \cup {CfgSteps[i] : i \in 1..Len(CfgSteps)}

\* the try block on the attributes a with the step fail raising: the
\* attributes it leaves, oldtoswitch (<< >> while it is None) and whether
\* it raised
CfgTry(a, dd, nexusvariables, fail, oddmntgrp) ==
    LET a1 == [a EXCEPT !.configVariables = JsonDumpsWithVars(nexusvariables)]
        nds == GetServerVar(<<a1>>, "dataSources", PyList(<< >>), FALSE,
                            oddmntgrp,
                            IF fail = "dataSources" THEN "raise" ELSE "ok")
        old == GetServerVar(<<a1>>, "stepdatasources", PyList(<< >>), FALSE,
                            FALSE,
                            IF fail = "stepdatasources" THEN "raise" ELSE "ok")
        a2 == [a1 EXCEPT !.stepdatasources =
                            ListOf(ToSwitch(dd, nds.value))]
    IN  IF fail = "configVariables"
        THEN [attrs |-> a, old |-> << >>, raised |-> TRUE]
        ELSE IF fail = "updateConfigVariables" \/ nds.outcome = "raise"
                  \/ old.outcome = "raise"
        THEN [attrs |-> a1, old |-> << >>, raised |-> TRUE]
        ELSE IF fail = "switch"
        THEN [attrs |-> a1, old |-> <<old.value>>, raised |-> TRUE]
        ELSE [attrs |-> a2, old |-> <<old.value>>,
              raised |-> (fail = "createConfiguration")]

\* the finally block without the restoring write
CfgFinally_NoRestore(t, nexusvariables, fail) ==
    IF fail = "configVariables"
    THEN [attrs |-> t.attrs, failed |-> TRUE]
    ELSE [attrs |-> [t.attrs EXCEPT !.configVariables = JsonDumps(nexusvariables)],
          failed |-> FALSE]

\* the finally block after the try block left t: the attributes it leaves
\* and whether it raised itself; fail is the write of the block that raises
CfgFinally(t, nexusvariables, fail) ==
    LET a1 == [t.attrs EXCEPT !.configVariables = JsonDumps(nexusvariables)]
    IN  IF fail = "configVariables"
        THEN [attrs |-> t.attrs, failed |-> TRUE]
        ELSE IF t.old = << >>
        THEN [attrs |-> a1, failed |-> FALSE]
        ELSE IF fail = "stepdatasources"
        THEN [attrs |-> a1, failed |-> TRUE]
        ELSE [attrs |-> [a1 EXCEPT !.stepdatasources = t.old[1]],
              failed |-> FALSE]

\* NXS_FileRecorder.__createConfiguration: before tells whether the part of
\* the method before the ConfigVariables raises, fail which step of the try
\* block does, finallyFail which write of the finally block does
NXS_CreateConfiguration(before, fail, finallyFail, oddmntgrp) ==
    /\ klass = "NXS"
    /\ settings # << >>
    /\ LET a == settings[1]
           dct == GetConfVar("ConfigVariables", NoneValue, TRUE, FALSE)
           nexusvariables == IF dct.outcome = "return" /\ dct.value.kind = "dict"
                             THEN dct.value ELSE PyDict(<< >>)
           t == CfgTry(a, datadesc, nexusvariables, fail, oddmntgrp)
           f == CfgFinally(t, nexusvariables, finallyFail)
       IN  IF before \/ dct.outcome = "raise"
           THEN /\ configured' = [outcome |-> "raised", entered |-> FALSE,
                                  switched |-> FALSE, tryRaised |-> FALSE,
                                  finallyRaised |-> FALSE,
                                  before |-> a.stepdatasources]
                /\ UNCHANGED settings
           ELSE /\ configured' =
                      [outcome |-> IF t.raised \/ f.failed
                                   THEN "raised" ELSE "returned",
                       entered |-> TRUE,
                       switched |-> t.attrs.stepdatasources # a.stepdatasources,
                       tryRaised |-> t.raised,
                       finallyRaised |-> f.failed,
                       before |-> a.stepdatasources]
                /\ settings' = <<f.attrs>>
    /\ UNCHANGED <<conf, got>>
    /\ UNCHANGED <<resolverIn, resolverOut, recorderVars, factoryVars, tgVars>>

InitConfiguration ==
    /\ ResolverIdle
    /\ NoRecorder
    /\ TgIdle
    /\ klass = "NXS"
    /\ dirExists = TRUE
    /\ datadesc \in {<< >>, NxsDataDesc}
    /\ conf \in Confs
    /\ settings \in {<<a>> : a \in SettingsAttrs}
    /\ got = [fn |-> "none"]
    /\ configured = [outcome |-> "none"]

NextConfiguration ==
    \E before \in BOOLEAN, fail \in CfgFailures,
       finallyFail \in {"none", "configVariables", "stepdatasources"},
       oddmntgrp \in BOOLEAN :
        NXS_CreateConfiguration(before, fail, finallyFail, oddmntgrp)

SpecConfiguration == InitConfiguration /\ [][NextConfiguration]_vars

(***************************************************************************)
(* PoolTGGeneration.start_action (pooltggeneration.py): the calls made to  *)
(* the trigger/gate controllers of a configuration.                        *)
(***************************************************************************)
\* the controllers and the axes of their trigger/gate elements
TgCtrls == {"c1", "c2"}
TgAxes == {1, 2}

\* the element_info of a channel: what the configuration says of enabled
TgInfos == [enabled : BOOLEAN]

\* an element of a controller with its configuration info; ret is what the
\* controller's PreStartOne returns for the axis
TgElements == [axis : TgAxes, info : TgInfos, ret : BOOLEAN]

\* main_unit_data['channels'] of a controller, in the iteration order of
\* the dict: at most two elements, of distinct axes
TgChannelLists ==
    ({<< >>} \cup {<<x>> : x \in TgElements})
        \cup UNION {{<<x, y>> : y \in {z \in TgElements : z.axis # x.axis}} :
                    x \in TgElements}

\* a controller of the configuration with its channels
TgControllers == [name : TgCtrls, channels : TgChannelLists]

\* cfg['controllers'], in the iteration order of pool_ctrls: at most two
\* controllers, distinct
TgConfigs ==
    ({<< >>} \cup {<<x>> : x \in TgControllers})
        \cup UNION {{<<x, y>> : y \in {z \in TgControllers : z.name # x.name}} :
                    x \in TgControllers}

\* TGChannel(element, info): the attributes of info, then enabled = True
TGChannel(element, info) ==
    ("enabled" :> TRUE) @@ info @@ [axis |-> element.axis]

\* a call to a controller: axis 0 for the calls that take none
TgCall(op, ctrl, axis) == <<op, ctrl, axis>>

\* the first loop: PreStartAll on every controller
TgPreStartAll(cfg) ==
    [i \in 1..Len(cfg) |-> TgCall("PreStartAll", cfg[i].name, 0)]

\* the loop over the elements of one controller: the calls made, and whether
\* the loop raised on a PreStartOne that returned false
RECURSIVE TgStartElements(_, _)
TgStartElements(ctrl, elements) ==
    IF elements = << >> THEN [log |-> << >>, raised |-> FALSE]
    ELSE LET element == Head(elements)
             channel == TGChannel(element, element.info)
             pre == TgCall("PreStartOne", ctrl, element.axis)
             rest == TgStartElements(ctrl, Tail(elements))
         IN  IF ~channel.enabled THEN rest
             ELSE IF ~element.ret
             THEN [log |-> <<pre>>, raised |-> TRUE]
             ELSE [log |-> <<pre, TgCall("StartOne", ctrl, element.axis)>>
                              \o rest.log,
                   raised |-> rest.raised]

\* the second loop: the elements of every controller in turn
RECURSIVE TgStartOnes(_)
TgStartOnes(cfg) ==
    IF cfg = << >> THEN [log |-> << >>, raised |-> FALSE]
    ELSE LET first == TgStartElements(Head(cfg).name, Head(cfg).channels)
             rest == TgStartOnes(Tail(cfg))
         IN  IF first.raised THEN first
             ELSE [log |-> first.log \o rest.log, raised |-> rest.raised]

\* the last loop: StartAll on every controller
TgStartAll(cfg) ==
    [i \in 1..Len(cfg) |-> TgCall("StartAll", cfg[i].name, 0)]

\* start_action calling StartAll although an element loop raised
TgActionLog_StartAllAlways(cfg) ==
    (TgPreStartAll(cfg) \o TgStartOnes(cfg).log) \o TgStartAll(cfg)

\* the calls of start_action to the controllers, in order
TgActionLog(cfg) ==
    (TgPreStartAll(cfg) \o TgStartOnes(cfg).log)
        \o (IF TgStartOnes(cfg).raised THEN << >> ELSE TgStartAll(cfg))

\* PoolTGGeneration.start_action(config=cfg)
TG_StartAction(cfg) ==
    /\ tgState = "idle"
    /\ tgConfig' = cfg
    /\ tgLog' = TgActionLog(cfg)
    /\ tgState' = IF TgStartOnes(cfg).raised THEN "raised" ELSE "started"
    /\ tgMoving' = IF TgStartOnes(cfg).raised THEN {}
                   ELSE UNION {{<<cfg[i].name, cfg[i].channels[k].axis>> :
                                    k \in 1..Len(cfg[i].channels)} :
                               i \in 1..Len(cfg)}
    /\ UNCHANGED <<resolverIn, resolverOut, recorderVars, factoryVars,
                   settingsVars>>

InitTG ==
    /\ ResolverIdle
    /\ NoRecorder
    /\ SettingsIdle
    /\ TgIdle
    /\ klass = "None"
    /\ dirExists = TRUE
    /\ datadesc = << >>

NextTG == \E cfg \in TgConfigs : TG_StartAction(cfg)

SpecTG == InitTG /\ [][NextTG]_vars

TgAt(op) == {i \in 1..Len(tgLog) : tgLog[i][1] = op}

\* the channels of the configuration: controller, axis, info and what
\* PreStartOne returns for the axis
TgConfigured ==
    UNION {{[ctrl |-> tgConfig[i].name, el |-> tgConfig[i].channels[k]] :
                k \in 1..Len(tgConfig[i].channels)} :
           i \in 1..Len(tgConfig)}

\* PreStartAll is called on every controller, before any PreStartOne
TgPreStartAllFirst ==
    /\ \A i \in 1..Len(tgConfig) :
          \E p \in TgAt("PreStartAll") : tgLog[p][2] = tgConfig[i].name
    /\ \A p \in TgAt("PreStartAll") : \A q \in TgAt("PreStartOne") : p < q

\* StartOne(axis) comes only after a PreStartOne(axis) of the same
\* controller that returned true
TgStartOneAfterPre ==
    \A q \in TgAt("StartOne") :
        /\ \E p \in TgAt("PreStartOne") :
              p < q /\ tgLog[p][2] = tgLog[q][2] /\ tgLog[p][3] = tgLog[q][3]
        /\ \A c \in TgConfigured :
              (c.ctrl = tgLog[q][2] /\ c.el.axis = tgLog[q][3]) => c.el.ret

\* StartAll comes only after the PreStartOne and StartOne of all channels
\* of all controllers
TgStartAllLast ==
    \A s \in TgAt("StartAll") :
        /\ \A q \in TgAt("PreStartOne") \cup TgAt("StartOne") : q < s
        /\ \A c \in TgConfigured :
              /\ \E q \in TgAt("PreStartOne") :
                    tgLog[q] = TgCall("PreStartOne", c.ctrl, c.el.axis)
              /\ \E q \in TgAt("StartOne") :
                    tgLog[q] = TgCall("StartOne", c.ctrl, c.el.axis)

\* a PreStartOne that returned false raises: no StartOne of its axis, no
\* StartAll on any controller
TgFalseRaises ==
    \A p \in TgAt("PreStartOne") :
        (\E c \in TgConfigured :
            c.ctrl = tgLog[p][2] /\ c.el.axis = tgLog[p][3] /\ ~c.el.ret)
        => /\ tgState = "raised"
           /\ \A q \in TgAt("StartOne") :
                 ~(tgLog[q][2] = tgLog[p][2] /\ tgLog[q][3] = tgLog[p][3])
           /\ TgAt("StartAll") = {}

\* C28: start_action calls PreStartAll on every controller before any
\* PreStartOne; StartOne(axis) only after PreStartOne(axis) on the same
\* controller returned true; StartAll on each controller only after the
\* PreStartOne/StartOne of all channels of all controllers; and if any
\* PreStartOne returns false an exception is raised, StartOne is not called
\* for that axis and StartAll is called on no controller.
C28_ControllerCallOrder ==
    tgState # "idle" =>
        /\ TgPreStartAllFirst
        /\ TgStartOneAfterPre
        /\ TgStartAllLast
        /\ TgFalseRaises

\* C28 witness: start_action on two controllers started the channel of the
\* first one and raised on the PreStartOne of the second one
C28_Witness ==
    /\ tgState = "raised"
    /\ Len(tgConfig) = 2
    /\ Cardinality(TgAt("PreStartAll")) = 2
    /\ Cardinality(TgAt("StartOne")) = 1
    /\ Cardinality(TgAt("PreStartOne")) = 2
    /\ tgLog[Len(tgLog)][1] = "PreStartOne"
    /\ tgLog[Len(tgLog)][2] # tgLog[3][2]

\* C29 as stated: a channel whose configuration info marks it as not enabled
\* is skipped: neither PreStartOne nor StartOne is called for its axis; only
\* channels configured as enabled are started.
C29_DisabledChannelSkipped ==
    \A c \in TgConfigured :
        ~c.el.info.enabled =>
            \A q \in TgAt("PreStartOne") \cup TgAt("StartOne") :
                ~(tgLog[q][2] = c.ctrl /\ tgLog[q][3] = c.el.axis)

(***************************************************************************)
(* Claims about the getters of NXS_FileRecorder (checked under             *)
(* SpecGetters).                                                           *)
(***************************************************************************)
\* the value the last getter call asked for, as it is stored
GotStored ==
    IF got.fn = "getConfVar" THEN conf[got.var] ELSE settings[1][got.var]

\* C27 as stated: __getConfVar and __getServerVar return the default, after
\* a 'cannot be found' warning and without raising, whenever the variable is
\* absent from the configuration (respectively the settings device or the
\* attribute name is missing); they return the default after a 'cannot be
\* decoded' warning when decoding is requested and fails; otherwise they
\* return the stored (decoded) value.
C27_DefaultWhenAbsent ==
    (got.fn # "none" /\ ~got.pass_default /\ got.read = "ok") =>
        IF ~got.found
        THEN got.res = Return(got.default, <<"cannot be found">>)
        ELSE IF got.decode /\ JsonLoads(GotStored) = << >>
        THEN got.res = Return(got.default, <<"cannot be decoded">>)
        ELSE IF got.decode
        THEN got.res = Return(JsonLoads(GotStored)[1], << >>)
        ELSE got.res = Return(GotStored, << >>)

(***************************************************************************)
(* Claims about the resolution (checked under SpecResolve).                *)
(***************************************************************************)
\* required: the configured dataSources, the device aliases and the
\* unaliased raw channel names
Required == datasources \cup dynamicDataSources

\* every alias found is listed under at least one component of cpReq
FoundIsCovered ==
    \A ds \in DOMAIN dsFound : \E cp \in DOMAIN cpReq : ds \in cpReq[cp]

\* the found aliases that no user or mandatory component supplies
FoundOutsideUser ==
    {ds \in DOMAIN dsFound : dsFound[ds] \cap nexuscomponents = {}}

\* C2 (as stated): for all inputs the returned missing list equals, as a
\* set, required minus the found aliases, and every found alias is listed
\* under a component of cpReq.
C2_MissingIsRequiredMinusFound ==
    resolved =>
        /\ BagSet(dsNotFound) = Required \ DOMAIN dsFound
        /\ FoundIsCovered

\* C2 (amended): missing is required minus the found aliases, plus, when
\* ComponentsFromMntGrp is false, the found aliases that are supplied only
\* by components outside the user and mandatory components; every found
\* alias is listed under a component of cpReq.
C2_MissingAmended ==
    resolved =>
        /\ BagSet(dsNotFound) =
              (Required \ DOMAIN dsFound)
                 \cup (IF cfm THEN {} ELSE FoundOutsideUser)
        /\ FoundIsCovered

\* C2 witness: a resolution without ComponentsFromMntGrp in which a found
\* alias is reported missing, next to one that is found and not missing.
C2_Witness ==
    /\ resolved
    /\ ~cfm
    /\ \E ds \in DOMAIN dsFound : dsNotFound[ds] > 0
    /\ \E ds \in DOMAIN dsFound : dsNotFound[ds] = 0
    /\ \E ds \in Required \ DOMAIN dsFound : dsNotFound[ds] > 0

\* the aliases a fetched component declares with strategy STEP and that are
\* required
StepRequired(cp) ==
    {e.dsname : e \in {s \in catalog[cp] :
                          s.strategy = "STEP" /\ s.dsname \in Required}}

\* the components whose source list was fetched
Fetched == Cmps(nexuscomponents, availableComps) \ broken

\* cpReq holds, for every fetched component, exactly its required STEP
\* aliases, and no key for a component without any
CpReqExact ==
    /\ DOMAIN cpReq = {cp \in Fetched : StepRequired(cp) # {}}
    /\ \A cp \in DOMAIN cpReq : cpReq[cp] = StepRequired(cp)

\* the inputs of the scenario: required = {mot1, det1}, the one component
\* base -> [(mot1, STEP), (x, STEP)], dynamic fallback enabled
Scenario ==
    /\ Required = {"mot1", "det1"}
    /\ Cmps(nexuscomponents, availableComps) = {"base"}
    /\ "base" \notin broken
    /\ catalog["base"] = {[dsname |-> "mot1", strategy |-> "STEP"],
                          [dsname |-> "x", strategy |-> "STEP"]}
    /\ dyncp

ScenarioResult ==
    /\ BagSet(dsNotFound) = {"det1"}
    /\ DOMAIN cpReq = {"base"}
    /\ cpReq["base"] = {"mot1"}

\* C3 (as stated): cpReq maps each fetched component to exactly its required
\* STEP aliases, and the scenario yields missing = {det1} and
\* cpReq = {base: [mot1]}.
C3_CpReqAndScenario ==
    resolved =>
        /\ CpReqExact
        /\ Scenario => ScenarioResult

\* C3 (amended): cpReq maps each fetched component to exactly its required
\* STEP aliases; the scenario yields missing = {det1} and
\* cpReq = {base: [mot1]} when base is a user or mandatory component or
\* ComponentsFromMntGrp is true, and missing = {mot1, det1} otherwise.
C3_CpReqAmended ==
    resolved =>
        /\ CpReqExact
        /\ (Scenario /\ ("base" \in nexuscomponents \/ cfm)) => ScenarioResult
        /\ (Scenario /\ ~("base" \in nexuscomponents \/ cfm)) =>
              /\ BagSet(dsNotFound) = {"mot1", "det1"}
              /\ DOMAIN cpReq = {"base"}
              /\ cpReq["base"] = {"mot1"}

\* C3 witness: the scenario resolved with base a user component, and a
\* component that declares a CLIENT source and a source that is not required.
C3_Witness ==
    /\ resolved
    /\ Scenario
    /\ "base" \in nexuscomponents
    /\ ScenarioResult


\* whether a fetched component of the set cs declares ds with strategy STEP
SuppliedBy(cs, ds) ==
    \E cp \in cs \ broken :
        [dsname |-> ds, strategy |-> "STEP"] \in catalog[cp]

\* C14: with restrictToUserComponents (ComponentsFromMntGrp false) a
\* required alias is found only if a user or mandatory component supplies
\* it with strategy STEP, and an alias supplied only by other available
\* components is listed in missing exactly once; without the restriction an
\* alias supplied with STEP by any fetched component is not in missing.
C14_RestrictedToUserComponents ==
    resolved =>
        \A ds \in datasources :
            /\ (~cfm /\ dsNotFound[ds] = 0) => SuppliedBy(nexuscomponents, ds)
            /\ (~cfm /\ SuppliedBy(availableComps, ds)
                     /\ ~SuppliedBy(nexuscomponents, ds)) => dsNotFound[ds] = 1
            /\ (cfm /\ SuppliedBy(Cmps(nexuscomponents, availableComps), ds))
                  => dsNotFound[ds] = 0

\* C14 witness: a restricted resolution that lists once an alias only an
\* optional component supplies and finds an alias a user component supplies.
C14_Witness ==
    /\ resolved
    /\ ~cfm
    /\ \E ds \in datasources :
          /\ SuppliedBy(availableComps, ds)
          /\ ~SuppliedBy(nexuscomponents, ds)
          /\ dsNotFound[ds] = 1
    /\ \E ds \in datasources :
          SuppliedBy(nexuscomponents, ds) /\ dsNotFound[ds] = 0

\* C15: a required alias that k >= 2 fetched components declare with
\* strategy STEP is listed in cpReq under each of them, in whatever order
\* the loop visits the components.
C15_AllSuppliersKept ==
    resolved =>
        \A ds \in Required :
            LET S == {cp \in Fetched : ds \in StepRequired(cp)}
            IN  Cardinality(S) >= 2 =>
                   \A cp \in S : cp \in DOMAIN cpReq /\ ds \in cpReq[cp]

\* C15 witness: a required alias two fetched components declare with STEP
\* is listed under both.
C15_Witness ==
    /\ resolved
    /\ \E ds \in Required :
          /\ Cardinality({cp \in Fetched : ds \in StepRequired(cp)}) = 2
          /\ \A cp \in Fetched : cp \in DOMAIN cpReq /\ ds \in cpReq[cp]

\* the components the loop visits whose fetch fails
Failed == Cmps(nexuscomponents, availableComps) \cap broken

\* the required aliases only components whose fetch fails would have supplied
OnlyFromFailed ==
    {ds \in Required :
        /\ \E cp \in Failed :
              [dsname |-> ds, strategy |-> "STEP"] \in catalog[cp]
        /\ \A cp \in Fetched : ds \notin StepRequired(cp)}

\* C16: a component whose fetch fails is skipped: it has no hit and no entry
\* in cpReq, every other component keeps exactly its hits, the resolution
\* returns its result, and the aliases only the failed components would
\* have supplied are in missing.
C16_FailedComponentSkipped ==
    resolved =>
        /\ \A ds \in DOMAIN dsFound :
              dsFound[ds] = {cp \in Fetched : ds \in StepRequired(cp)}
        /\ DOMAIN dsFound = UNION {StepRequired(cp) : cp \in Fetched}
        /\ DOMAIN cpReq \cap broken = {}
        /\ \A cp \in DOMAIN cpReq : cpReq[cp] = StepRequired(cp)
        /\ \A ds \in OnlyFromFailed : dsNotFound[ds] >= 1

\* C16 witness: the resolution returned with one component failed that alone
\* would have supplied a required alias, and another component's hit kept.
C16_Witness ==
    /\ resolved
    /\ Failed # {}
    /\ OnlyFromFailed # {}
    /\ \A ds \in OnlyFromFailed : dsNotFound[ds] >= 1
    /\ \E cp \in Fetched : cp \in DOMAIN cpReq /\ cpReq[cp] # {}


(***************************************************************************)
(* Claims about SPEC_FileRecorder (checked under SpecSPEC).                *)
(***************************************************************************)
IsPrefix(a, b) == Len(a) <= Len(b) /\ SubSeq(b, 1, Len(a)) = a

\* the lines of the file that hold a header "#S <serial>"
HeaderLines(serial) ==
    {i \in 1..Len(fileLines) : fileLines[i] = <<"#S", <<StrInt(serial)>> >>}

\* C5: every step of the flat-table recorder only appends to the output
\* file: the content written before (by earlier runs and by this one) stays
\* an unchanged prefix of the file, whatever the serial number of the run.
C5_OnlyAppends ==
    [][IsPrefix(fileLines, fileLines') /\ (fileExists => fileExists')]_vars

\* C5 witness: a second run was started with the serial number of the first
\* one on the file the first run wrote, and has written a record and custom
\* data behind the content of the first run.
C5_Witness ==
    /\ klass = "SPEC"
    /\ runs = 2
    /\ pc = "started"
    /\ runMark > 0
    /\ Cardinality(HeaderLines(serialno)) = 2
    /\ Len(calls) > 0
    /\ fileLines[Len(fileLines)] = <<"#C", <<"custom">> >>

\* the body lines written since the run started
RECURSIVE DataLines(_)
DataLines(lines) ==
    IF lines = << >> THEN << >>
    ELSE (IF Head(lines)[1] = "data" THEN <<Head(lines)[2]>> ELSE << >>)
            \o DataLines(Tail(lines))

\* the descriptors that have a column: those whose shape is scalar
C6_Columns == SelectSeq(datadesc, LAMBDA e : e.shape \in {<< >>, <<1>>})

\* the value of a column in the line of a record: the NaN literal when the
\* channel is absent or None
C6_Value(data, e) ==
    IF e.name \in DOMAIN data /\ data[e.name] # NoneValue
    THEN Str(data[e.name]) ELSE "nan"

\* C6: with an output file configured, after n writeRecord calls the body of
\* the run holds exactly n lines in call order, each with one value per
\* scalar-shaped descriptor in descriptor order, an absent or None value
\* rendered as nan.
C6_BodyLines ==
    (klass = "SPEC" /\ filename # "None" /\ pc \in {"started", "ended", "failed"}) =>
        DataLines(SubSeq(fileLines, runMark + 1, Len(fileLines))) =
            [i \in 1..Len(calls) |->
                [k \in 1..Len(C6_Columns) |-> C6_Value(calls[i], C6_Columns[k])]]

\* C6 witness: two different records written, one with a None and an absent
\* channel, for a descriptor list with a non-scalar descriptor in the middle.
C6_Witness ==
    /\ klass = "SPEC"
    /\ pc = "started"
    /\ filename # "None"
    /\ Len(calls) = 2
    /\ calls[1] # calls[2]
    /\ Len(datadesc) = 3
    /\ "det1" \notin DOMAIN calls[2]
    /\ calls[2]["mot1"] = NoneValue
    /\ fileLines[Len(fileLines)] = <<"data", <<"nan", "nan">> >>

\* C18 as stated: _addCustomData leaves the handle of the recorder as it
\* found it, closed (or never opened) if it was closed and open if it was
\* open, whatever handlers ran before; the file keeps its lines, with at
\* most one comment line appended.
C18_HandleLeftAsFound ==
    [][(klass = "SPEC" /\ ncustom' = ncustom + 1) =>
          /\ fd \in {"None", "closed"} => fd' \in {"None", "closed"}
          /\ fd = "open" => fd' = "open"
          /\ \/ fileLines' = fileLines
             \/ fileLines' = Append(fileLines, <<"#C", <<"custom">> >>)
      ]_vars


(***************************************************************************)
(* Claims about FIO_FileRecorder (checked under SpecFIO).                  *)
(***************************************************************************)
\* the Col lines and the body lines of the file, in order
ColLines == SelectSeq(fileLines, LAMBDA l : l[1] = "Col")
BodyLines == SelectSeq(fileLines, LAMBDA l : l[1] = "data")

\* the name of the descriptor a Col line declares
ColName(col) ==
    IF col[2][2] = <<"timestamp">> THEN "timestamp"
    ELSE datadesc[CHOOSE i \in 1..Len(datadesc) :
                      datadesc[i].label = col[2][2]].name

\* C19 as stated: for every descriptor list, array-shaped descriptors
\* included, each body line holds as many values as the header has Col
\* lines, the k-th value being the one of the descriptor the k-th Col line
\* declares, the timestamp last.
C19_BodyFollowsHeader ==
    (klass = "FIO" /\ pc \in {"started", "ended"} /\ filename # "None") =>
        \A j \in 1..Len(BodyLines) :
            /\ Len(BodyLines[j][2]) = Len(ColLines)
            /\ \A k \in 1..Len(ColLines) :
                  BodyLines[j][2][k] = FioRender(calls[j], ColName(ColLines[k]))
            /\ ColName(ColLines[Len(ColLines)]) = "timestamp"

\* a _writeRecord step that wrote the body line of its record
FioBodyStep ==
    /\ klass = "FIO" /\ pc = "started"
    /\ Len(calls') = Len(calls) + 1

\* the record of a FioBodyStep
FioStepRecord == calls'[Len(calls')]

\* the run has a trace and every trace of the record holds data
TracesHoldData(data) ==
    /\ mcaNames # << >>
    /\ \A k \in 1..Len(mcaNames) : data[mcaNames[k]].kind = "array"

\* the sidecar files, after the step, of the point of the record
SidecarsOf(data) ==
    {f \in mcaFiles' : f.serial = serialno /\ f.point = data["point_nb"].v[1] + 1}

\* f is closed, has as many rows as the longest trace is long, and each row
\* holds one value per trace in descriptor order, 0 past the end of a trace
SidecarHolds(f, data) ==
    /\ f.closed
    /\ \E k \in 1..Len(mcaNames) : Len(f.rows) = Len(data[mcaNames[k]].v)
    /\ \A k \in 1..Len(mcaNames) : Len(data[mcaNames[k]].v) <= Len(f.rows)
    /\ \A i \in 1..Len(f.rows) :
          /\ Len(f.rows[i]) = Len(mcaNames)
          /\ \A k \in 1..Len(mcaNames) :
                f.rows[i][k] = IF i <= Len(data[mcaNames[k]].v)
                               THEN StrInt(data[mcaNames[k]].v[i])
                               ELSE "0"

\* the step leaves exactly one sidecar file for the point, as SidecarHolds
OneSidecar(data) ==
    /\ Cardinality(SidecarsOf(data)) = 1
    /\ \A f \in SidecarsOf(data) : SidecarHolds(f, data)

ByExtension(ext) ==
    CASE ext = <<".", "fio">> -> "FIO"
      [] ext = <<".", "nxs">> -> "NXS"
      [] ext \in { <<".", "h5">>, <<".", "h4">>, <<".", "xml">> } -> "NXscan"
      [] OTHER -> "SPEC"

\* C20 as stated: the factory selects the back-end from the extension of
\* the path alone, unrecognized and missing extensions giving SPEC, and two
\* calls with the same extension yield the same class.
C20_ExtensionAlone ==
    /\ \A r \in made : r.klass = ByExtension(FactoryExt(r.path))
    /\ \A a, b \in made :
          FactoryExt(a.path) = FactoryExt(b.path) => a.klass = b.klass

\* C20 (amended): a hint of the macro that names a recorder class selects
\* that class whatever the extension; otherwise, unless the hint names a
\* global that is no class, the back-end follows from the lower-cased
\* extension alone (.fio FIO, .nxs NXS, .h5 / .h4 / .xml NXscan, anything
\* else or none SPEC); two calls with the same extension and the same hint
\* yield the same class.
C20_HintThenExtension ==
    /\ \A r \in made :
          /\ r.hint \in RecorderClasses => r.klass = r.hint
          /\ r.hint \notin RecorderClasses \cup {"FileRecorder"} =>
                r.klass = ByExtension(FactoryExt(r.path))
    /\ \A a, b \in made :
          (FactoryExt(a.path) = FactoryExt(b.path) /\ a.hint = b.hint)
             => a.klass = b.klass

\* C20 witness: two calls with the extension .h4, one without a hint giving
\* NXscan and one with the hint SPEC_FileRecorder giving SPEC.
C20_Witness ==
    \E a, b \in made :
        /\ FactoryExt(a.path) = <<".", "h4">> /\ a.hint = "None"
        /\ a.klass = "NXscan"
        /\ FactoryExt(b.path) = <<".", "h4">> /\ b.hint = "SPEC"
        /\ b.klass = "SPEC"

(***************************************************************************)
(* Claims about NXscan_FileRecorder (checked under SpecNXscan).            *)
(***************************************************************************)
\* a step of _startRecordList of the NXscan recorder
NxStartStep == klass = "NXscan" /\ pc = "new" /\ pc' # "new"

\* C4 as stated: whenever a run is started with a serial number whose entry
\* the file already holds, _startRecordList raises and the file content is
\* left as it was.
C4_DuplicateEntryAborts ==
    [][(NxStartStep /\ serialno' \in DOMAIN nxfile)
          => (pc' = "failed" /\ nxfile' = nxfile)]_vars

\* C4 amended: the same for a recorder constructed with overwrite false; a
\* recorder constructed with overwrite true opens the file in a creating
\* mode, which discards the earlier entries.
C4_DuplicateEntryAbortsNoOverwrite ==
    [][(NxStartStep /\ ~overwrite /\ serialno' \in DOMAIN nxfile)
          => (pc' = "failed" /\ nxfile' = nxfile)]_vars

\* C4 witness: a recorder without overwrite was started with the serial
\* number of an entry that holds slabs; the start raised on the entry.
C4_Witness ==
    /\ klass = "NXscan"
    /\ pc = "failed"
    /\ raised = "entry"
    /\ ~overwrite
    /\ runs = 2
    /\ \E l \in DOMAIN nxfile[serialno].datasets :
            nxfile[serialno].datasets[l].slabs # << >>

\* the type a descriptor of the environment is stored with
C7_StoredType(d) == IF d.dtype = "bool" THEN "int8" ELSE d.dtype

\* the datasets of the entry of the current run that hold the data of d
C7_DatasetsOf(d) ==
    {l \in DOMAIN nxfile[entryname].datasets :
        nxfile[entryname].datasets[l].owner = d.name}

\* C7: after a successful start, a descriptor of an unsupported type (bool
\* counted as int8) has no dataset and no slab, every descriptor of a
\* supported type has its dataset with one slab per record that contains
\* it, and no failure of start or writeRecord is due to a descriptor of
\* an unsupported type.
C7_UnsupportedLeftOut ==
    /\ (klass = "NXscan" /\ pc \in {"started", "ended"} /\ filename # "None") =>
          \A i \in 1..Len(datadesc) :
              LET d == datadesc[i]
              IN  IF C7_StoredType(d) \in SupportedDtypes
                  THEN /\ C7_DatasetsOf(d) # {}
                       /\ \A l \in C7_DatasetsOf(d), n \in 1..Len(calls) :
                            d.name \in DOMAIN calls[n] =>
                              \E k \in 1..Len(nxfile[entryname].datasets[l].slabs) :
                                nxfile[entryname].datasets[l].slabs[k].offset[1] = n - 1
                  ELSE C7_DatasetsOf(d) = {}
    /\ (klass = "NXscan" /\ pc = "failed") =>
          \/ raised \in {"AttributeError", "UnboundLocalError", "open", "write", "entry"}
          \/ /\ raised = "dataset"
             /\ \E i, j \in 1..Len(datadesc) :
                    /\ i # j
                    /\ C7_StoredType(datadesc[i]) \in SupportedDtypes
                    /\ C7_StoredType(datadesc[j]) \in SupportedDtypes
                    /\ SanitizeName(datadesc[i].label) = SanitizeName(datadesc[j].label)

\* C7 witness: two records written for a list with a char descriptor, the
\* first record holding a value for it, and a bool descriptor stored as int8
\* with its slab.
C7_Witness ==
    /\ klass = "NXscan"
    /\ pc = "started"
    /\ Len(calls) = 2
    /\ \E i \in 1..Len(datadesc) :
          /\ datadesc[i].dtype = "char"
          /\ datadesc[i].name \in DOMAIN calls[1]
    /\ \E l \in DOMAIN nxfile[entryname].datasets :
          /\ nxfile[entryname].datasets[l].dtype = "int8"
          /\ nxfile[entryname].datasets[l].slabs # << >>

\* the putslab calls of dataset ds for the record of point index n
C11_SlabsAt(ds, n) == {k \in 1..Len(ds.slabs) : ds.slabs[k].offset[1] = n}

\* C11: after n successful _writeRecord calls every dataset of the run
\* holds, for each record that has its descriptor's name as a key, exactly
\* one slab, at the point index of the record along the leading dimension
\* and at 0 along the others, with zeros of the descriptor's shape for None;
\* for a record without the key it holds no slab, and it holds no other.
C11_OneSlabPerPresentDescriptor ==
    (klass = "NXscan" /\ pc \in {"started", "ended"} /\ filename # "None") =>
        \A l \in DOMAIN nxfile[entryname].datasets :
            LET ds == nxfile[entryname].datasets[l]
            IN  /\ \A k \in 1..Len(ds.slabs) :
                        ds.slabs[k].offset[1] \in 0..(Len(calls) - 1)
                /\ \A n \in 1..Len(calls) :
                      IF ds.owner \in DOMAIN calls[n]
                      THEN /\ Cardinality(C11_SlabsAt(ds, n - 1)) = 1
                           /\ \A k \in C11_SlabsAt(ds, n - 1) :
                                /\ Len(ds.slabs[k].offset) = 1 + Len(ds.shape)
                                /\ \A i \in 2..Len(ds.slabs[k].offset) :
                                        ds.slabs[k].offset[i] = 0
                                /\ ds.slabs[k].value =
                                      IF calls[n][ds.owner].kind = "None"
                                      THEN [kind |-> "zeros", v |-> ds.shape]
                                      ELSE calls[n][ds.owner]
                      ELSE C11_SlabsAt(ds, n - 1) = {}

\* C11 witness: two records written to a run with an array-shaped dataset,
\* the second record holding None for it, and a dataset whose descriptor
\* is a key of the first record only.
C11_Witness ==
    /\ klass = "NXscan"
    /\ pc = "started"
    /\ filename # "None"
    /\ Len(calls) = 2
    /\ \E l \in DOMAIN nxfile[entryname].datasets :
          LET ds == nxfile[entryname].datasets[l]
          IN  /\ ds.shape = <<2>>
              /\ Len(ds.slabs) = 2
              /\ ds.slabs[2] = [offset |-> <<1, 0>>,
                                value |-> [kind |-> "zeros", v |-> <<2>>]]
    /\ \E i \in 1..Len(nxdatadesc) :
          /\ nxdatadesc[i].name \in DOMAIN calls[1]
          /\ nxdatadesc[i].name \notin DOMAIN calls[2]

\* C21 as stated: after start of the NXscan recorder on descriptors with
\* non-empty, pairwise distinct labels, every persisted label does not
\* begin with a digit, holds only alphanumeric characters and underscores,
\* and the persisted labels are pairwise distinct.
C21_LabelsAreIdentifiers ==
    (klass = "NXscan" /\ pc = "started" /\ filename # "None"
        /\ (\A i \in 1..Len(datadesc) : datadesc[i].label # << >>)
        /\ (\A i, j \in 1..Len(datadesc) :
              i # j => datadesc[i].label # datadesc[j].label)) =>
        /\ (\A i \in 1..Len(nxdatadesc) :
              LET l == nxdatadesc[i].label
              IN  /\ l # << >> => ~IsDigit(l[1])
                  /\ \A k \in 1..Len(l) : IsAlnum(l[k]) \/ l[k] = "_")
        /\ (\A i, j \in 1..Len(nxdatadesc) :
              i # j => nxdatadesc[i].label # nxdatadesc[j].label)

\* the datasets of the entries the recorder created with the rank threshold
\* it still holds: those of the entry of the current run
NxRunDatasets ==
    IF klass = "NXscan" /\ pc \in {"started", "ended"} /\ entryname \in DOMAIN nxfile
    THEN nxfile[entryname].datasets
    ELSE << >>

\* C24 as stated: a measurement dataset is compressed only when the rank
\* threshold is non-negative and the descriptor's dimensionality exceeds it;
\* with the default threshold -1, or a descriptor rank that does not exceed
\* the threshold, the dataset is uncompressed
C24_CompressedAboveThreshold ==
    \A l \in DOMAIN NxRunDatasets :
        NxRunDatasets[l].compressed <=>
            (dataCompressionRank >= 0
                /\ Len(NxRunDatasets[l].shape) > dataCompressionRank)

\* C10 as stated: when _startRecordList or _writeRecord lets a failure
\* propagate, the recorder holds no open handle in the state right after.
C10_ClosedAfterFailure ==
    [][(klass = "NXscan" /\ pc' = "failed"
            /\ (pc = "new" \/ (pc = "started" /\ nrec' # nrec)))
          => fd' # "open"]_vars


(***************************************************************************)
(* Claims about NXS_FileRecorder (checked under SpecNXS).                  *)
(***************************************************************************)
\* the sequence of the run is over: end has returned or a failure propagated
C1_Over == klass = "NXS" /\ pc \in {"ended", "failed"}

\* createDynamicComponent returned during the sequence; self.__dynamicCP
\* then holds the name of the component it created
C1_Created == Returned(svcLog, "createDynamicComponent")

C12_DynamicFallback ==
    (klass = "NXS" /\ Called(svcLog, "createDynamicComponent")) =>
        IF dyncp
        THEN /\ dynArgs.dss = dsNotFound
             /\ dynArgs.keys = missingKeys
             /\ \A ds \in DOMAIN warned : warned[ds] = 0
        ELSE /\ \A ds \in DOMAIN warned : warned[ds] = dsNotFound[ds]
             /\ \A ds \in DOMAIN dynArgs.dss : dynArgs.dss[ds] = 0

\* C12 witness: a start without dynamic fallback resolved a configuration
\* with two missing channels and two missing keys and went on to
\* createDynamicComponent.
C12_Witness ==
    /\ klass = "NXS"
    /\ Returned(svcLog, "createDynamicComponent")
    /\ ~dyncp
    /\ Cardinality(BagSet(dsNotFound)) = 2
    /\ Cardinality(BagSet(warned)) = 2
    /\ Cardinality(missingKeys) = 2

\* restrictToUserComponents: the test of __searchDataSources on the user
\* components applies when ComponentsFromMntGrp is false
RestrictToUser == ~cfm

\* the components the resolution visits that were fetched and declare a
\* required alias with the STEP strategy
Suppliers ==
    {cp \in (nexuscomponents \cup availableComps) \ broken :
        \E e \in catalog[cp] : e.strategy = "STEP" /\ e.dsname \in datasources}

\* C13: the components of the configuration __createConfiguration asks
\* for (the list it hands to createConfiguration together with the
\* mandatory components the settings service always includes), apart from
\* the dynamic component, are the mandatory and the user components and,
\* when restrictToUserComponents is false, every component supplying a
\* required alias.
C13_ConfigurationComponents ==
    (klass = "NXS" /\ Called(svcLog, "createConfiguration")) =>
        (cnfComponents \cup mandatory) \ {dynamicCP} =
            IF RestrictToUser THEN mandatory \cup usercomponents
            ELSE (mandatory \cup usercomponents) \cup Suppliers

\* C13 witness: createConfiguration was called without the restriction for
\* a configuration in which a component that is neither mandatory nor
\* requested by the user supplies a required alias.
C13_Witness ==
    /\ klass = "NXS"
    /\ Returned(svcLog, "createConfiguration")
    /\ ~RestrictToUser
    /\ usercomponents = {"base"}
    /\ mandatory = {}
    /\ Suppliers \ (mandatory \cup usercomponents) # {}
    /\ Suppliers \ (mandatory \cup usercomponents) \subseteq cnfComponents

\* the names of the calls of a log that go to the writer service
WriterNames == {"openFile", "openEntry", "record", "closeEntry", "closeFile"}

RECURSIVE WriterCalls(_)
WriterCalls(log) ==
    IF log = << >> THEN << >>
    ELSE IF Head(log)[1] \in WriterNames
         THEN <<Head(log)[1]>> \o WriterCalls(Tail(log))
         ELSE WriterCalls(Tail(log))

\* the calls a step of the run adds to the log of the services
AddedCalls ==
    IF Len(svcLog') >= Len(svcLog) /\ SubSeq(svcLog', 1, Len(svcLog)) = svcLog
    THEN {svcLog'[i][1] : i \in (Len(svcLog) + 1)..Len(svcLog')}
    ELSE {}

\* no call of the run raised and the run has a file to write
C17_FailureFree ==
    /\ klass = "NXS"
    /\ filename # "None"
    /\ raised = "None"
    /\ \A i \in 1..Len(svcLog) : svcLog[i][2] = "ok"

C22_UnaliasedChannelKept ==
    (klass = "NXS" /\ Called(svcLog, "createDynamicComponent")) =>
        \A i \in 1..Len(datadesc) :
            GetAlias(datadesc[i].name) = "None" =>
                /\ datadesc[i].name \in dynamicDataSources
                /\ dsNotFound[datadesc[i].name] >= 1
                /\ dyncp =>
                      /\ dynArgs.dss[datadesc[i].name] >= 1
                      /\ \E k \in 1..Len(dynArgs.dds) :
                            dynArgs.dds[k] =
                               [name |-> datadesc[i].name,
                                shape |-> datadesc[i].shape,
                                dtype |-> datadesc[i].dtype]

\* the number of calls of svcLog before position i that are the call c
CallsBefore(i, c) == Cardinality({j \in 1..(i - 1) : svcLog[j] = c})

\* C26 as stated: over any sequence of start, writeRecord and end calls with
\* any failures, removeDynamicComponent is requested only for a component
\* that createDynamicComponent created earlier in the same run and that has
\* not been removed yet: never when no dynamic component was created in the
\* run, and never twice for one creation.
C26_RemovalOnlyOfCreated ==
    klass = "NXS" =>
        \A i \in 1..Len(svcLog) :
            svcLog[i][1] = "removeDynamicComponent" =>
                CallsBefore(i, Call("createDynamicComponent", "ok"))
                    > CallsBefore(i, Call("removeDynamicComponent", "ok"))

\* C8 as stated: with self.filename None, a writeRecord or end call writes
\* to no file and makes no call to the settings or the writer service.
C8_NoOpWithoutTarget ==
    [][(klass = "NXS" /\ pc = "started" /\ filename = "None"
            /\ (pc' # pc \/ nrec' # nrec))
          => (svcLog' = svcLog /\ fileLines' = fileLines /\ nxfile' = nxfile)]_vars

\* C9 as stated: a start that finds the output directory missing and cannot
\* create it raises, writes nothing and opens no file and no entry at the
\* writer service.
C9_DirectoryFailureIsFatal ==
    [][(klass = "NXS" /\ pc = "new" /\ pc' # "new" /\ base_filename # "None"
            /\ ~dirExists')
          => (/\ pc' = "failed"
              /\ ~Returned(svcLog', "openFile")
              /\ ~Returned(svcLog', "openEntry")
              /\ fileLines' = fileLines)]_vars


=============================================================================
